---- MODULE Spec2Model ----
(***************************************************************************)
(* Race simulation engine of toyota-gr-sim (src/server.py, src/nice.py):   *)
(* the RaceSim state, its per-tick step, the pit / undercut bookkeeping,   *)
(* the leaderboard, the race flags and the simulation loop that drives     *)
(* the ticks.                                                              *)
(*                                                                         *)
(* Fixed-point units (the code uses floats):                               *)
(*   time, total_time, pit_counter, error_timer : milliseconds             *)
(*   s (distance)                               : centimetres              *)
(*   v (speed)                                  : centimetres / second     *)
(*   wear                                       : 1/10000                  *)
(*   fuel                                       : millilitres              *)
(*   probabilities                              : 1/10000000               *)
(*   speed_multiplier                           : tenths                   *)
(* Random draws of the code (random.random, random.choice, random.uniform, *)
(* np.random.normal) are nondeterministic choices.                         *)
(***************************************************************************)
EXTENDS Integers, Sequences, FiniteSets, TLC

(***************************************************************************)
(* Bounds of the model.                                                    *)
(***************************************************************************)
\* one model tick stands for Coarsen consecutive 0.5 s ticks of the code
Coarsen == 16
\* track['total_length'] of the modelled circuit, in cm
TrackLength == 100000
\* sim.total_laps of the modelled race
TotalLaps == 5
\* base_wear_rate of step(), in 1/10000 per second (the code's value depends
\* on the grip coefficient; the model takes one value, scaled to the short race)
BaseWearRate == 500
\* caps that keep the state space finite
MaxStops == 2
MaxResets == 1

(***************************************************************************)
(* Program constants.                                                      *)
(***************************************************************************)
PIT_TIME_BASE == 22000
FuelCapacity == 110000
RefuelRate == 3
GridSpacing == 200
One == 10000000
WearCap == 9900

Cars == {1, 2}
RaceCars == {1, 2, 3}
DryTyres == {"SOFT", "MEDIUM", "HARD"}
Tyres == DryTyres \cup {"WET"}

\* self.dt (0.5 s in the code)
dt == 500 * Coarsen

\* TYRE_BASE, in percent
TYRE_BASE(t) ==
    CASE t = "SOFT" -> 100
      [] t = "MEDIUM" -> 95
      [] t = "HARD" -> 90
      [] t = "WET" -> 78
      [] OTHER -> 90

\* TYRE_WEAR_RATES, in tenths
TYRE_WEAR_RATES(t) ==
    CASE t = "SOFT" -> 20
      [] t = "MEDIUM" -> 10
      [] t = "HARD" -> 5
      [] t = "WET" -> 12
      [] OTHER -> 10

\* driver_data after the sort by driver_skill (descending): driver and car
\* skill in percent of the first cars of the grid
DriverSkill == <<96, 95, 95>>
CarSkill == <<89, 92, 91>>

Abs(x) == IF x < 0 THEN -x ELSE x
Min(a, b) == IF a < b THEN a ELSE b
Max(a, b) == IF a > b THEN a ELSE b

\* floor division for possibly negative numerators (Python's //)
FloorDiv(a, b) == IF a >= 0 THEN a \div b ELSE -((-a + b - 1) \div b)

\* Python's round(x, 2) on a value in ms: to a multiple of 10 ms, ties to even
Round2(x) ==
    LET a == Abs(x)
        q == a \div 10
        r == a % 10
        up == IF r > 5 THEN 1 ELSE IF r < 5 THEN 0 ELSE q % 2
        m == (q + up) * 10
    IN IF x < 0 THEN -m ELSE m

(***************************************************************************)
(* CarState                                                                *)
(***************************************************************************)
NoUndercuts == [x \in {} |-> 0]

\* CarState.__init__ followed by the assignments of RaceSim.init_cars
NewCar(i, tyre) ==
    [ name |-> i,
      tyre |-> tyre,
      wear |-> 0,
      fuel |-> FuelCapacity,
      total_time |-> 0,
      laps_completed |-> 0,
      on_pit |-> FALSE,
      pit_counter |-> 0,
      s |-> (i - 1) * GridSpacing,
      v |-> 0,
      position |-> 0,
      tire_temp |-> 1000,
      drs_active |-> FALSE,
      error_active |-> FALSE,
      error_timer |-> 0,
      error_speed_multiplier |-> 100,
      pitstop_history |-> << >>,
      pitstop_count |-> 0 ]

(***************************************************************************)
(* RaceSim.get_leaderboard                                                 *)
(***************************************************************************)
\* a sort key without its third component
KeyLessNoTime(a, b) ==
    \/ a.laps_completed > b.laps_completed
    \/ a.laps_completed = b.laps_completed /\ a.s > b.s

\* the sort key (-laps_completed, -s, total_time), compared as Python
\* compares tuples
KeyLess(a, b) ==
    \/ a.laps_completed > b.laps_completed
    \/ a.laps_completed = b.laps_completed /\ a.s > b.s
    \/ a.laps_completed = b.laps_completed /\ a.s = b.s /\ a.total_time < b.total_time

\* stable insertion of car index i into the sorted sequence sq
RECURSIVE InsertSorted(_, _, _)
InsertSorted(cars, sq, i) ==
    IF sq = << >> THEN << i >>
    ELSE IF KeyLess(cars[i], cars[Head(sq)])
         THEN << i >> \o sq
         ELSE << Head(sq) >> \o InsertSorted(cars, Tail(sq), i)

\* sorted(self.cars, key=...): a stable sort of the cars in list order
RECURSIVE SortCars(_, _)
SortCars(cars, k) ==
    IF k = 0 THEN << >>
    ELSE InsertSorted(cars, SortCars(cars, k - 1), k)

\* the list get_leaderboard returns: car indices, best first
get_leaderboard(cars) == SortCars(cars, Len(cars))

\* nice.py RaceSim.get_leaderboard: the key is
\* (-laps_completed, -(s % total_length), total_time)
nice_get_leaderboard(cars) ==
    get_leaderboard([i \in DOMAIN cars |-> [cars[i] EXCEPT !.s = @ % TrackLength]])

\* index (from 1) of car i in the sequence sq; 0 when absent
IndexOf(sq, i) ==
    IF \E k \in 1..Len(sq) : sq[k] = i
    THEN CHOOSE k \in 1..Len(sq) : sq[k] = i
    ELSE 0

\* the side effect of get_leaderboard: c.position = i + 1 for every car
WithPositions(cars) ==
    LET sq == get_leaderboard(cars)
    IN [i \in DOMAIN cars |-> [cars[i] EXCEPT !.position = IndexOf(sq, i)]]

(***************************************************************************)
(* Track: curvature along the lap, in 1/1000000 per metre.  The code       *)
(* interpolates a table sampled from the spline; the model takes a lap     *)
(* with one corner.                                                        *)
(***************************************************************************)
Curv(arc) ==
    LET pct == ((arc % TrackLength) * 100) \div TrackLength
    IN IF pct >= 60 /\ pct < 70 THEN 20000 ELSE 500

\* integer square root
RECURSIVE ISqrtIter(_, _, _)
ISqrtIter(n, lo, hi) ==
    IF lo >= hi THEN lo
    ELSE LET mid == (lo + hi + 1) \div 2
         IN IF mid * mid <= n THEN ISqrtIter(n, mid, hi)
            ELSE ISqrtIter(n, lo, mid - 1)

ISqrt(n) == IF n <= 0 THEN 0 ELSE ISqrtIter(n, 0, 46340)

(***************************************************************************)
(* Speed limits and grip                                                   *)
(***************************************************************************)
\* RaceSim.tyre_grip_coeff, in 1/10000
tyre_grip_coeff(car, weather) ==
    LET base == TYRE_BASE(car.tyre) * 100
        g1 == (base * (10000 - (6 * car.wear) \div 10)) \div 10000
        g2 == IF car.tyre = "WET"
              THEN (g1 * (200 + weather.rain)) \div 200
              ELSE (g1 * (1000 - 9 * weather.rain)) \div 1000
        combined_skill == 7 * DriverSkill[car.name] + 3 * CarSkill[car.name]
        g3 == (g2 * (8000 + 4 * combined_skill)) \div 10000
    IN Max(g3, 500)

\* RaceSim.cornering_speed, curvature in 1/1000000 per metre
cornering_speed(car, weather, curvature) ==
    LET grip == tyre_grip_coeff(car, weather)
        curv == Max(curvature, 1)
        v0 == ISqrt(((grip * 120000) \div curv) * 100)
        \* base_mass 1250 kg, fuel 0.75 kg per litre
        current_mass == 1250000 + (car.fuel * 3) \div 4
        mass_ratio == (1250000 * 1000) \div (current_mass \div 10)
        v1 == (v0 * ISqrt(mass_ratio * 10000)) \div 10000
    IN (v1 * (1000 - 15 * weather.wind)) \div 1000

\* RaceSim.straight_speed
straight_speed(car, weather) ==
    LET combined_skill == 6 * DriverSkill[car.name] + 4 * CarSkill[car.name]
        b0 == 8000 + 2 * combined_skill
        b1 == (b0 * (400 - weather.rain)) \div 400
        b2 == (b1 * (9000 + 15 * TYRE_BASE(car.tyre))) \div 10000
        g == tyre_grip_coeff(car, weather)
        b3 == (b2 * (9500 + g \div 10)) \div 10000
        b4 == (b3 * (9500 + g \div 10)) \div 10000
        fuel_factor == 100000 - (45 * car.fuel * 100) \div FuelCapacity
        b5 == (b4 * fuel_factor) \div 100000
    IN IF car.drs_active THEN (b5 * 110) \div 100 ELSE b5

(***************************************************************************)
(* RaceSim.pitstop_probability.  sim is the record of the simulation       *)
(* fields a step reads and writes:                                         *)
(*   cars, pending_undercuts, race_events, race_finished, time, weather,   *)
(*   total_laps                                                            *)
(* and the history fields race, fin_log, consumed, reconsumed that observe *)
(* the finalizations, and discarded, the entries removed unresolved        *)
(* (they influence nothing).                                               *)
(***************************************************************************)
\* the early returns without the final-laps ban
PitEarlyReturnNoBan(car, total_laps) ==
    IF car.wear < 8000 /\ car.fuel > 10000 THEN 0
    ELSE IF car.fuel < 5000 THEN One
    ELSE -1

\* the early returns of pitstop_probability: the final-laps ban, good tyres
\* with enough fuel, critical fuel
PitEarlyReturn(car, total_laps) ==
    LET laps_remaining == total_laps - car.laps_completed
    IN IF laps_remaining <= 3 THEN 0
       ELSE IF car.wear < 8000 /\ car.fuel > 10000 THEN 0
       ELSE IF car.fuel < 5000 THEN One
       ELSE -1

\* base probability from the wear band
PitWearBase(wear) ==
    IF wear < 8500 THEN 1000000 + 2000 * (wear - 8000)
    ELSE IF wear < 9000 THEN 2000000 + 12000 * (wear - 8500)
    ELSE One

pitstop_probability(sim, i) ==
    LET car == sim.cars[i]
        early == PitEarlyReturn(car, sim.total_laps)
        sorted_cars == get_leaderboard(sim.cars)
        car_position == IndexOf(sorted_cars, i)
        has_behind == car_position < Len(sorted_cars)
        car_behind == sim.cars[sorted_cars[Min(car_position + 1, Len(sorted_cars))]]
        lap_diff_behind == car_behind.laps_completed - car.laps_completed
        distance_gap_behind == lap_diff_behind * TrackLength + (car.s - car_behind.s)
        \* gap_behind = distance_gap_behind / car.v, only when car.v > 0.1
        gap_known == has_behind /\ car.v > 10
        gap_over_3 == gap_known /\ distance_gap_behind > 3 * car.v
        fast_approaching == gap_known /\ distance_gap_behind > 0
                                      /\ distance_gap_behind < 2 * car.v
        p0 == PitWearBase(car.wear)
        in_band == car.wear >= 8000 /\ car.wear < 9000
        p1 == IF in_band /\ gap_over_3 THEN (p0 * 3) \div 10
              ELSE IF in_band /\ fast_approaching THEN Min(One, (p0 * 15) \div 10)
              ELSE p0
        time_until_rejoin == car.total_time + (PIT_TIME_BASE + 1000) - sim.time
        car_normalized == car.laps_completed * TrackLength + car.s
        Opportunity(o) ==
            LET other == sim.cars[o]
                future_s == other.s + (other.v * time_until_rejoin) \div 1000
                other_normalized == other.laps_completed * TrackLength + future_s
                gap == Abs(other_normalized - car_normalized)
            IN /\ o # i
               /\ ~other.on_pit
               /\ time_until_rejoin > 0
               /\ car.v > 10
               /\ gap >= 2 * car.v
               /\ gap <= 5 * car.v
        gap_opportunity == car.wear >= 8000 /\ \E o \in DOMAIN sim.cars : Opportunity(o)
        p2 == IF gap_opportunity /\ car.wear >= 8500
              THEN Min(One, (p1 * 13) \div 10) ELSE p1
        cars_in_pit == Cardinality({c \in DOMAIN sim.cars : sim.cars[c].on_pit})
        p3 == IF cars_in_pit >= 3 /\ in_band THEN p2 \div 2 ELSE p2
    IN IF early >= 0 THEN early
       ELSE IF car.wear >= 9000 THEN Min(One, p3) ELSE p3

(***************************************************************************)
(* Undercut bookkeeping                                                    *)
(***************************************************************************)
\* remove the element at index k (from 1) of a sequence: list.pop(idx)
Pop(sq, k) == SubSeq(sq, 1, k - 1) \o SubSeq(sq, k + 1, Len(sq))

\* the indices of sq whose element satisfies Test, ascending
Indices(sq, Test(_)) == {k \in 1..Len(sq) : Test(sq[k])}

\* pop the indices of the set idx from sq, highest first
RECURSIVE PopAll(_, _)
PopAll(sq, idx) ==
    IF idx = {} THEN sq
    ELSE LET k == CHOOSE x \in idx : \A y \in idx : y <= x
         IN PopAll(Pop(sq, k), idx \ {k})

\* tire_types_match of check_for_pending_undercuts
\* a comparison that takes any two compounds for comparable
tire_types_any(ta, tb) == TRUE

tire_types_match(ta, tb) ==
    ta = tb \/ (ta \in DryTyres /\ tb \in DryTyres)

\* a check that never finds the pair
battle_never_exists(pending, a, b) == FALSE

\* battle_exists of check_for_pending_undercuts: a pending entry of the pair
\* a, b in either order
battle_exists(pending, a, b) ==
    \E q \in 1..Len(pending) :
        \/ pending[q].driver_a = a /\ pending[q].driver_b = b
        \/ pending[q].driver_a = b /\ pending[q].driver_b = a

\* the loop of check_for_pending_undercuts over sorted_cars from index k on
RECURSIVE PendingLoop(_, _, _, _, _, _)
PendingLoop(cars, pending, sorted_cars, k, i, race) ==
    IF k > Len(sorted_cars) THEN pending
    ELSE
      LET o == sorted_cars[k]
          car == cars[i]
          other_car == cars[o]
          time_gap == other_car.total_time - car.total_time
          position_diff == Abs(car.position - other_car.position)
          is_adjacent == position_diff <= 2
          entry == [ driver_a |-> i,
                     driver_b |-> o,
                     a_pit_lap |-> car.laps_completed,
                     gap_before |-> Round2(time_gap),
                     tire_a |-> car.tyre,
                     tire_b |-> other_car.tyre,
                     a_position |-> car.position,
                     b_position |-> other_car.position,
                     \* history field, not in the code: the pit entry that
                     \* created the entry (race number, stop number of A)
                     origin |-> << race, car.pitstop_count >> ]
          create == /\ o # i
                    /\ ~other_car.on_pit
                    /\ Abs(time_gap) <= 5000
                    /\ other_car.laps_completed = car.laps_completed
                    /\ is_adjacent
                    /\ tire_types_match(car.tyre, other_car.tyre)
                    /\ ~battle_exists(pending, i, o)
      IN PendingLoop(cars, IF create THEN Append(pending, entry) ELSE pending,
                     sorted_cars, k + 1, i, race)

\* a check that leaves the old entries of the pitting car where they are
check_for_pending_undercuts_uncleaned(sim, i) ==
    LET cars == WithPositions(sim.cars)
        sorted_cars == get_leaderboard(sim.cars)
    IN [sim EXCEPT !.cars = cars,
                   !.pending_undercuts =
                       PendingLoop(cars, sim.pending_undercuts, sorted_cars, 1, i,
                                   sim.race)]

\* RaceSim.check_for_pending_undercuts(car): the new sim
check_for_pending_undercuts(sim, i) ==
    LET cars == WithPositions(sim.cars)
        sorted_cars == get_leaderboard(sim.cars)
        IsMine(p) == p.driver_a = i
        cleaned == PopAll(sim.pending_undercuts,
                          Indices(sim.pending_undercuts, IsMine))
    IN [sim EXCEPT !.cars = cars,
                   !.pending_undercuts =
                       PendingLoop(cars, cleaned, sorted_cars, 1, i, sim.race),
                   !.discarded = @ \cup
                       { << p.driver_a, p.driver_b, p.origin >> :
                             p \in { sim.pending_undercuts[k] :
                                         k \in Indices(sim.pending_undercuts, IsMine) } }]

\* dict assignment d[k] = r
DictSet(d, k, r) == [x \in (DOMAIN d) \cup {k} |-> IF x = k THEN r ELSE d[x]]

\* index of the first pit stop of the history whose lap is the given lap; 0 if none
FirstStopAtLap(history, lap) ==
    IF \E k \in 1..Len(history) : history[k].lap = lap
    THEN CHOOSE k \in 1..Len(history) :
             /\ history[k].lap = lap
             /\ \A j \in 1..(k - 1) : history[j].lap # lap
    ELSE 0

\* the body of the loop of finalize_undercut_battles for the pending entry at
\* index idx, car i being driver_b, up to the final pop: the records written
\* (fin_log, consumed and reconsumed are history: what was finalized in this
\* tick, the entries consumed so far, whether one was consumed twice)
FinalizeRecords(sim, idx, i) ==
    LET pending == sim.pending_undercuts[idx]
        a == pending.driver_a
        b == pending.driver_b
        driver_a == sim.cars[a]
        driver_b == sim.cars[b]
        gap_after == driver_b.total_time - driver_a.total_time
        gap_before == pending.gap_before
        undercut_time == gap_before - gap_after
        tire_a == pending.tire_a
        tire_b == sim.cars[i].tyre
        tire_factor == TYRE_BASE(tire_b) - TYRE_BASE(tire_a)
        position_a == driver_a.position
        position_b == driver_b.position
        rec_a == [ time_gain |-> Round2(undercut_time),
                   position_before |-> pending.a_position,
                   position_after |-> position_a,
                   position_change |-> pending.a_position - position_a,
                   other_position |-> position_b,
                   time_gap_before |-> Round2(gap_before),
                   time_gap_after |-> Round2(gap_after),
                   tire_a |-> tire_a,
                   tire_b |-> tire_b,
                   tire_factor |-> tire_factor,
                   undercut_type |-> IF undercut_time > 0 THEN "success" ELSE "failed" ]
        rec_b == [ time_gain |-> Round2(-undercut_time),
                   position_before |-> pending.b_position,
                   position_after |-> position_b,
                   position_change |-> pending.b_position - position_b,
                   other_position |-> position_a,
                   time_gap_before |-> Round2(-gap_before),
                   time_gap_after |-> Round2(-gap_after),
                   tire_a |-> tire_b,
                   tire_b |-> tire_a,
                   tire_factor |-> -tire_factor,
                   undercut_type |-> IF undercut_time > 0 THEN "undercut" ELSE "defended" ]
        ka == FirstStopAtLap(driver_a.pitstop_history, pending.a_pit_lap)
        kb == Len(driver_b.pitstop_history)
        significant == ~(Abs(undercut_time) < 1000)
        cars_a == IF significant /\ ka > 0
                  THEN [sim.cars EXCEPT ![a].pitstop_history[ka].undercuts =
                            DictSet(@, b, rec_a)]
                  ELSE sim.cars
        cars_b == IF significant /\ kb > 0
                  THEN [cars_a EXCEPT ![b].pitstop_history[kb].undercuts =
                            DictSet(@, a, rec_b)]
                  ELSE cars_a
        observed == [ driver_a |-> a, driver_b |-> b, origin |-> pending.origin,
                      gap_before |-> gap_before,
                      gap_after |-> gap_after,
                      undercut_time |-> undercut_time,
                      wrote_a |-> significant /\ ka > 0,
                      wrote_b |-> significant /\ kb > 0,
                      gain_a |-> rec_a.time_gain,
                      gain_b |-> rec_b.time_gain ]
        key == << a, b, pending.origin >>
    IN [sim EXCEPT !.cars = cars_b,
                   !.fin_log = Append(@, observed),
                   !.consumed = @ \cup {key},
                   !.reconsumed = @ \/ key \in sim.consumed]

\* the loop body without its final pop
FinalizeOneNoPop(sim, idx, i) == FinalizeRecords(sim, idx, i)

\* the loop body with self.pending_undercuts.pop(idx), which both branches end in
FinalizeOne(sim, idx, i) ==
    [FinalizeRecords(sim, idx, i) EXCEPT !.pending_undercuts = Pop(@, idx)]

\* the loop over battles_to_finalize, highest index first
RECURSIVE FinalizeLoop(_, _, _)
FinalizeLoop(sim, idx, i) ==
    IF idx = {} THEN sim
    ELSE LET k == CHOOSE x \in idx : \A y \in idx : y <= x
         IN FinalizeLoop(FinalizeOne(sim, k, i), idx \ {k}, i)

\* RaceSim.finalize_undercut_battles(car): the new sim
finalize_undercut_battles(sim, i) ==
    LET IsB(p) == p.driver_b = i
        positioned == [sim EXCEPT !.cars = WithPositions(sim.cars)]
    IN FinalizeLoop(positioned, Indices(sim.pending_undercuts, IsB), i)

(***************************************************************************)
(* RaceSim.step                                                            *)
(***************************************************************************)
\* get_pitstop_time(): PIT_TIME_BASE plus a variation within [-2 s, +2 s];
\* the variations the model draws
PitVariations == {0, 1000, 1900}

\* the four error tiers of step(): speed multiplier in percent, and the
\* error_timer and time_loss values the model draws from the uniform ranges
\* (1.5-2.5 / 0.5-1.5, 2.0-3.5 / 1.0-2.5, 3.0-5.0 / 3.0-6.0, 4.0-7.0 / 5.0-10.0)
ErrorDraws ==
    { [error_type |-> "lockup", mult |-> 85, timer |-> 2000, time_loss |-> 1000],
      [error_type |-> "wide", mult |-> 75, timer |-> 3000, time_loss |-> 2000],
      [error_type |-> "gravel", mult |-> 50, timer |-> 4000, time_loss |-> 4500],
      [error_type |-> "spin", mult |-> 20, timer |-> 5000, time_loss |-> 7500] }

\* the compounds a car leaving the pits can be given
ExitTyres(weather, laps_remaining) ==
    IF weather.rain > 60 THEN {"WET"}
    ELSE IF laps_remaining <= 6 THEN {"SOFT"}
    ELSE IF laps_remaining < 10 THEN {"SOFT", "MEDIUM"}
    ELSE {"SOFT", "MEDIUM", "HARD"}

\* TYRE_HEAT_FACTORS, in tenths
TYRE_HEAT_FACTORS(t) ==
    CASE t = "SOFT" -> 12
      [] t = "MEDIUM" -> 10
      [] t = "HARD" -> 8
      [] t = "WET" -> 9
      [] OTHER -> 10

\* new tyres at ambient_temp + 55.0, without the floor of 80 degrees
warm_tire_temp_unfloored(weather) == (weather.track_temp + 55) * 10

\* max(80.0, ambient_temp + 55.0): the temperature of new tyres, in tenths
\* of a degree
warm_tire_temp(weather) == Max(800, (weather.track_temp + 55) * 10)

\* the tyre temperature of a running car after a tick, in tenths of a
\* degree: heat from cornering and speed against cooling by air and rain
tire_temp_step(car, weather, curv) ==
    LET ambient_temp == weather.track_temp * 10
        heat_factor == TYRE_HEAT_FACTORS(car.tyre)
        is_cornering == curv > 2000
        is_straight == curv < 500
        v2 == (car.v * car.v) \div 10000
        heat_gen == IF is_cornering
                    THEN (((v2 * curv) \div 1000) * 25 * heat_factor) \div 10000
                         + (3 * car.v * heat_factor) \div 1000
                    ELSE IF is_straight
                         THEN (15 * car.v * heat_factor) \div 10000
                         ELSE (((car.v * curv) \div 1000) * 8 * heat_factor) \div 10000
        rate == IF is_cornering THEN 2 ELSE 8
        over == car.tire_temp - ambient_temp
        cooling == FloorDiv(FloorDiv(rate * (200 + weather.rain) * over, 100)
                            * (10000 + car.v), 2000000)
                   + (IF weather.rain > 0
                      THEN FloorDiv(FloorDiv(weather.rain * 15 * over, 1000) * dt, 10000)
                      ELSE 0)
        dtemp == FloorDiv((heat_gen - cooling) * dt, 1000)
    IN Max(ambient_temp + 200, Min(car.tire_temp + dtemp, 1500))

\* a car in the pits whose countdown is left as it is
StepInPitFrozen(sim, i) == {sim}

\* a car in the pits: the countdown, and on expiry the pit exit
StepInPit(sim, i) ==
    LET car == sim.cars[i]
        counter == car.pit_counter - dt
    IN IF counter <= 0
       THEN { LET hist == car.pitstop_history
                  hist2 == IF Len(hist) > 0
                           THEN [hist EXCEPT ![Len(hist)].new_tyre = tyre]
                           ELSE hist
                  out == [car EXCEPT !.on_pit = FALSE,
                                     !.pit_counter = 0,
                                     !.tyre = tyre,
                                     !.pitstop_history = hist2]
                  fin == finalize_undercut_battles(
                             [sim EXCEPT !.cars[i] = out], i)
              IN [fin EXCEPT !.cars[i].wear = 0,
                             !.cars[i].tire_temp = warm_tire_temp(sim.weather)]
              : tyre \in ExitTyres(sim.weather,
                                   sim.total_laps - car.laps_completed) }
       ELSE { [sim EXCEPT !.cars[i].pit_counter = counter] }

\* DRS detection for car i, sorted_cars being the leaderboard taken at the
\* start of the step
DrsActive(sim, sorted_cars, i) ==
    LET car == sim.cars[i]
        car_position == IndexOf(sorted_cars, i) - 1
        leader == sim.cars[sorted_cars[1]]
        car_s_normalized == car.s % TrackLength
        in_drs_zone == /\ 35 * TrackLength <= 100 * car_s_normalized
                       /\ 100 * car_s_normalized <= 45 * TrackLength
        car_ahead == sim.cars[sorted_cars[Max(car_position, 1)]]
        distance_gap == (car.laps_completed - car_ahead.laps_completed) * TrackLength
                        + (car_ahead.s - car.s)
        leader_distance_gap == (car.laps_completed - leader.laps_completed) * TrackLength
                               + (leader.s - car.s)
    IN /\ leader.laps_completed >= 3
       /\ car_position > 0
       /\ in_drs_zone
       /\ car.v > 10
       /\ 0 < distance_gap /\ distance_gap <= car.v
       /\ 0 < leader_distance_gap /\ leader_distance_gap <= car.v

\* the defensive speed multiplier of car i, in 1/10000
DefensiveMultiplier(sim, sorted_cars, i, curv) ==
    LET car == sim.cars[i]
        pos == IndexOf(sorted_cars, i)
        car_behind == sim.cars[sorted_cars[Min(pos + 1, Len(sorted_cars))]]
        g0 == (car.laps_completed - car_behind.laps_completed) * TrackLength
              + (car.s - car_behind.s)
        g1 == IF g0 < 0 THEN g0 + TrackLength ELSE g0
        distance_gap == IF 2 * g1 > TrackLength THEN TrackLength - g1 ELSE g1
        time_gap == (distance_gap * 1000) \div Max(car.v, 1)
    IN IF /\ pos < Len(sorted_cars)
          /\ ~car_behind.on_pit
          /\ car.v > 10
          /\ distance_gap > 0
          /\ 2 * distance_gap >= car.v /\ distance_gap <= 3 * car.v
          /\ curv < 1000
       THEN Min(10000, 9800 - (24 * (3000 - time_gap)) \div 100)
       ELSE 10000

\* braking and acceleration towards target_v, as one 0.5 s tick of the code
\* does it: 20 m/s2 when more than 5 m/s too fast, else 15 m/s2; 6 m/s2 up
SpeedControlOnce(v, target_v) ==
    LET v1 == IF v > target_v
              THEN IF v - target_v > 500 THEN v - 1000 ELSE v - 750
              ELSE IF v < target_v THEN v + 300
              ELSE v
    IN Max(0, Min(v1, target_v))

\* the speed control over the k >= 1 code ticks one model tick stands for,
\* target_v held: after the first tick the car is at or below target_v and
\* every further tick accelerates it by 6 m/s2 up to target_v
SpeedControl(v, target_v, k) ==
    Max(0, Min(SpeedControlOnce(v, target_v) + 300 * (k - 1), target_v))

\* the speed control of a running car: DRS, target speed, braking and
\* acceleration, the slowdown of an active driver error and its expiry
StepSpeed(sim, sorted_cars, i) ==
    LET car0 == sim.cars[i]
        curv == Curv(car0.s)
        car == [car0 EXCEPT !.drs_active = DrsActive(sim, sorted_cars, i)]
        simd == [sim EXCEPT !.cars[i] = car]
        defensive == DefensiveMultiplier(simd, sorted_cars, i, curv)
        curv_ahead == Curv(car.s + 2 * car.v)
        v_corner == cornering_speed(car, sim.weather, curv)
        v_corner_ahead == cornering_speed(car, sim.weather, curv_ahead)
        v_straight == (straight_speed(car, sim.weather) * defensive) \div 10000
        target_v == Min(v_straight, Min(v_corner, v_corner_ahead))
        v2 == SpeedControl(car.v, target_v, Coarsen)
        timer == car.error_timer - dt
    IN IF car.error_active
       THEN IF timer <= 0
            THEN [car EXCEPT !.v = (v2 * car.error_speed_multiplier) \div 100,
                             !.error_active = FALSE,
                             !.error_timer = 0,
                             !.error_speed_multiplier = 100]
            ELSE [car EXCEPT !.v = (v2 * car.error_speed_multiplier) \div 100,
                             !.error_timer = timer]
       ELSE [car EXCEPT !.v = v2]

\* the pit entry of car i with the drawn tyre-change time
PitEntry(sim, i, tyre_time) ==
    LET car == sim.cars[i]
        fuel_needed == FuelCapacity - car.fuel
        refuel_time == fuel_needed \div RefuelRate
        pit_time == Max(tyre_time, refuel_time)
        entered == [car EXCEPT !.on_pit = TRUE,
                               !.pit_counter = pit_time,
                               !.fuel = FuelCapacity]
        checked == check_for_pending_undercuts(
                       [sim EXCEPT !.cars[i] = entered], i)
        stop == [ lap |-> car.laps_completed,
                  tyre |-> car.tyre,
                  pit_time |-> Round2(pit_time),
                  new_tyre |-> "NONE",
                  undercuts |-> NoUndercuts ]
    IN [checked EXCEPT !.cars[i].total_time = @ + pit_time,
                       !.cars[i].pitstop_count = @ + 1,
                       !.cars[i].pitstop_history = Append(@, stop)]

\* the pit decision: random.random() < pitstop_probability(car) * dt
StepPitDecision(sim, i) ==
    {sim} \cup
    IF /\ ~sim.cars[i].on_pit
       /\ pitstop_probability(sim, i) > 0
       /\ sim.cars[i].pitstop_count < MaxStops
    THEN {PitEntry(sim, i, PIT_TIME_BASE + var) : var \in PitVariations}
    ELSE {}

\* a driver error that is not written to race_events
ErrorEntryUnlogged(sim, i, e) ==
    [sim EXCEPT !.cars[i].error_speed_multiplier = e.mult,
                !.cars[i].error_timer = e.timer,
                !.cars[i].error_active = TRUE,
                !.cars[i].total_time = @ + e.time_loss,
                !.error_budget = @ - 1]

\* RaceSim.error_probability is positive for every car, so an error can be
\* drawn in any tick in which none is active
ErrorEntry(sim, i, e) ==
    LET car == sim.cars[i]
        event == [ type |-> "error",
                   time |-> sim.time,
                   lap |-> car.laps_completed,
                   driver |-> i,
                   error_type |-> e.error_type,
                   time_loss |-> Round2(e.time_loss),
                   track_position |-> car.s ]
    IN [sim EXCEPT !.cars[i].error_speed_multiplier = e.mult,
                   !.cars[i].error_timer = e.timer,
                   !.cars[i].error_active = TRUE,
                   !.cars[i].total_time = @ + e.time_loss,
                   !.race_events = Append(@, event),
                   !.error_budget = @ - 1]

StepErrorDecision(sim, i) ==
    {sim} \cup
    IF ~sim.cars[i].error_active /\ sim.error_budget > 0
    THEN {ErrorEntry(sim, i, e) : e \in ErrorDraws}
    ELSE {}

\* lap crossing: (s // L) > ((s - v * dt) // L), s being the distance after
\* the move and moved the distance v * dt
LapCrossed(s, moved, L) == FloorDiv(s, L) > FloorDiv(s - moved, L)

\* wear left unclamped
NoClampWear(wear) == wear

\* car.wear = min(car.wear, 0.99)
ClampWear(wear) == Min(wear, WearCap)

\* a finish detected one lap late
RaceCompleteLate(laps_completed, total_laps) == laps_completed > total_laps

\* if car.laps_completed >= self.total_laps
RaceComplete(laps_completed, total_laps) == laps_completed >= total_laps

\* tyre wear, fuel burn, the move along the track and the lap count
StepWearFuelMove(sim, i) ==
    LET car == sim.cars[i]
        grip == tyre_grip_coeff(car, sim.weather)
        base_wear_rate == (BaseWearRate * (10000 + (8 * (10000 - grip)) \div 10)) \div 10000
        multiplier == TYRE_WEAR_RATES(car.tyre) * (IF car.drs_active THEN 105 ELSE 100)
        wear == ClampWear(car.wear
                          + (((base_wear_rate * multiplier) \div 1000) * dt) \div 1000)
        burnt == car.fuel - (35 * dt) \div 1000
        fuel == IF burnt < 0 THEN 0 ELSE burnt
        v == IF burnt < 0 THEN 0 ELSE car.v
        moved == (v * dt) \div 1000
        s == car.s + moved
        crossed == LapCrossed(s, moved, TrackLength)
        laps == IF crossed THEN car.laps_completed + 1 ELSE car.laps_completed
        temp == tire_temp_step(car, sim.weather, Curv(car.s))
    IN [sim EXCEPT !.cars[i] = [car EXCEPT !.wear = wear, !.fuel = fuel, !.v = v,
                                           !.s = s, !.laps_completed = laps,
                                           !.tire_temp = temp],
                   !.race_finished = @ \/ (crossed /\ RaceComplete(laps, sim.total_laps))]

\* the body of the for loop of step() for car i: the set of outcomes
StepCar(sim, sorted_cars, i) ==
    IF sim.cars[i].on_pit THEN StepInPit(sim, i)
    ELSE LET sped == [sim EXCEPT !.cars[i] = StepSpeed(sim, sorted_cars, i)]
         IN { StepWearFuelMove(s2, i) :
                  s2 \in UNION { StepErrorDecision(s1, i) :
                                     s1 \in StepPitDecision(sped, i) } }

\* the for loop over self.cars, in list order
RECURSIVE StepCars(_, _, _)
StepCars(sims, sorted_cars, i) ==
    IF i > Len(sorted_cars) THEN sims
    ELSE StepCars(UNION { StepCar(sim, sorted_cars, i) : sim \in sims },
                  sorted_cars, i + 1)

\* RaceSim.step(): the set of simulations one call can produce
step(sim, race_started, paused) ==
    IF ~race_started \/ paused THEN {sim}
    ELSE LET start == [sim EXCEPT !.cars = WithPositions(sim.cars)]
             sorted_cars == get_leaderboard(sim.cars)
         IN { [after EXCEPT !.cars = WithPositions(after.cars),
                            !.time = @ + dt] :
                  after \in StepCars({start}, sorted_cars, 1) }

(***************************************************************************)
(* The simulation and the server around it                                 *)
(***************************************************************************)
\* sim: the RaceSim; active_connections: the websocket readers; probe: the
\* record of the operation under observation: the arguments and the result
\* of the last direct call of a pure function, or the position of
\* simulation_loop inside the iteration it is running
VARIABLES sim, active_connections, probe

vars == << sim, active_connections, probe >>

NoProbe == [ op |-> "none" ]

Readers == {1}

\* the weather of initialize_simulation() and the weathers a start request
\* can carry (rain in percent, wind in m/s, track_temp in degrees)
DefaultWeather == [rain |-> 15, wind |-> 3, track_temp |-> 22]
Weathers == {[rain |-> 15, wind |-> 3, track_temp |-> 22],
             [rain |-> 70, wind |-> 0, track_temp |-> 30]}

\* speed requests of set_speed, in tenths
SpeedRequests == {0, 10}

\* RaceSim.__init__ with init_cars: tyres is the compound drawn for each car;
\* error_budget is the number of driver errors the random draws of the run
\* can still produce
NewSim(weather, tyres, error_budget) ==
    [ cars |-> [i \in DOMAIN tyres |->
                   [NewCar(i, tyres[i]) EXCEPT !.tire_temp = warm_tire_temp(weather)]],
      time |-> 0,
      weather |-> weather,
      total_laps |-> TotalLaps,
      race_finished |-> FALSE,
      race_started |-> FALSE,
      paused |-> FALSE,
      speed_multiplier |-> 10,
      race_events |-> << >>,
      pending_undercuts |-> << >>,
      race |-> 0,
      fin_log |-> << >>,
      consumed |-> {},
      reconsumed |-> FALSE,
      discarded |-> {},
      error_budget |-> error_budget ]

\* RaceSim.get_state(): its effect on the simulation is the position refresh
\* of get_leaderboard
get_state(s) == [s EXCEPT !.cars = WithPositions(s.cars)]

\* a batch that steps whether or not the race is finished
RECURSIVE LoopStepsFinished(_, _)
LoopStepsFinished(sims, k) ==
    IF k = 0 THEN sims
    ELSE LoopStepsFinished(UNION { step(s, s.race_started, s.paused) : s \in sims },
                           k - 1)

\* a batch whose steps run whether or not the race is paused
RECURSIVE LoopStepsPaused(_, _)
LoopStepsPaused(sims, k) ==
    IF k = 0 THEN sims
    ELSE LoopStepsPaused(UNION { IF s.race_finished THEN {s}
                                 ELSE step(s, s.race_started, FALSE) : s \in sims },
                         k - 1)

\* for _ in range(steps_per_broadcast): if not sim.race_finished: sim.step()
RECURSIVE LoopSteps(_, _)
LoopSteps(sims, k) ==
    IF k = 0 THEN sims
    ELSE LoopSteps(UNION { IF s.race_finished THEN {s}
                           ELSE step(s, s.race_started, s.paused) : s \in sims },
                   k - 1)

\* steps_per_broadcast = max(1, int(3 * sim.speed_multiplier))
steps_per_broadcast(speed_multiplier) == Max(1, (3 * speed_multiplier) \div 10)

\* one iteration of simulation_loop: the batch of steps, the snapshot and the
\* broadcast, the readers whose send fails being dropped
SimulationLoop ==
    /\ active_connections # {}
    /\ \E after \in LoopSteps({[sim EXCEPT !.fin_log = << >>]},
                              steps_per_broadcast(sim.speed_multiplier)) :
           sim' = get_state(after)
    /\ \E failed \in SUBSET active_connections :
           active_connections' = active_connections \ failed
    /\ UNCHANGED probe

\* websocket_endpoint: a reader connects
Connect(r) ==
    /\ r \notin active_connections
    /\ active_connections' = active_connections \cup {r}
    /\ UNCHANGED << sim, probe >>

\* websocket_endpoint: the reader goes away
Disconnect(r) ==
    /\ r \in active_connections
    /\ active_connections' = active_connections \ {r}
    /\ UNCHANGED << sim, probe >>

\* POST /api/start: initialize_simulation(weather) and sim.start_race()
ApiStart ==
    /\ \E w \in Weathers, tyres \in [DOMAIN sim.cars -> DryTyres] :
           sim' = [NewSim(w, tyres, sim.error_budget) EXCEPT !.race_started = TRUE,
                                                          !.paused = FALSE]
    /\ UNCHANGED << active_connections, probe >>

\* POST /api/reset and the websocket 'reset' message: initialize_simulation()
ApiReset ==
    /\ \E tyres \in [DOMAIN sim.cars -> DryTyres] :
           sim' = NewSim(DefaultWeather, tyres, sim.error_budget)
    /\ UNCHANGED << active_connections, probe >>

\* RaceSim.start_race
start_race ==
    /\ sim' = [sim EXCEPT !.race_started = TRUE, !.paused = FALSE, !.fin_log = << >>]
    /\ UNCHANGED << active_connections, probe >>

\* RaceSim.pause_race
pause_race ==
    /\ sim' = [sim EXCEPT !.paused = TRUE, !.fin_log = << >>]
    /\ UNCHANGED << active_connections, probe >>

\* RaceSim.resume_race
resume_race ==
    /\ sim' = [sim EXCEPT !.paused = FALSE, !.fin_log = << >>]
    /\ UNCHANGED << active_connections, probe >>

\* a set_speed that takes the request as it comes
set_speed_unclamped(speed) ==
    /\ sim' = [sim EXCEPT !.speed_multiplier = speed, !.fin_log = << >>]
    /\ UNCHANGED << active_connections, probe >>

\* RaceSim.set_speed: clamped to [0.1, 10]
set_speed(speed) ==
    /\ sim' = [sim EXCEPT !.speed_multiplier = Max(1, Min(100, speed)),
                          !.fin_log = << >>]
    /\ UNCHANGED << active_connections, probe >>

\* RaceSim.reset_race: tyres is the compound drawn for each car
ResetCar(car, tyre) ==
    [car EXCEPT !.s = (car.name - 1) * GridSpacing,
                !.v = 0,
                !.laps_completed = 0,
                !.total_time = 0,
                !.wear = 0,
                !.fuel = FuelCapacity,
                !.on_pit = FALSE,
                !.pit_counter = 0,
                !.pitstop_history = << >>,
                !.pitstop_count = 0,
                !.tyre = tyre,
                !.error_active = FALSE,
                !.error_timer = 0,
                !.error_speed_multiplier = 100]

reset_race ==
    /\ sim.race < MaxResets
    /\ \E tyres \in [DOMAIN sim.cars -> DryTyres] :
           sim' = [sim EXCEPT !.time = 0,
                              !.race_finished = FALSE,
                              !.race_started = FALSE,
                              !.paused = FALSE,
                              !.speed_multiplier = 10,
                              !.race_events = << >>,
                              !.cars = [i \in DOMAIN tyres |->
                                           [ResetCar(sim.cars[i], tyres[i]) EXCEPT
                                                !.tire_temp = warm_tire_temp(sim.weather)]],
                              !.race = @ + 1,
                              !.fin_log = << >>]
    /\ UNCHANGED << active_connections, probe >>

Init ==
    /\ \E tyres \in [Cars -> DryTyres] : sim = NewSim(DefaultWeather, tyres, 0)
    /\ active_connections = {}
    /\ probe = NoProbe

\* the server: the loop, the websocket readers and the control endpoints
Next ==
    \/ SimulationLoop
    \/ \E r \in Readers : Connect(r)
    \/ \E r \in Readers : Disconnect(r)
    \/ ApiStart
    \/ ApiReset
    \/ pause_race
    \/ resume_race
    \/ \E speed \in SpeedRequests : set_speed(speed)

Spec == Init /\ [][Next]_vars

(***************************************************************************)
(* The race engine on its own: a RaceSim of three cars, started, ticked    *)
(* one step() per loop iteration (speed 0.1x) with its reader connected.   *)
(***************************************************************************)
RaceInit ==
    /\ \E tyres \in [RaceCars -> DryTyres] :
           sim = [NewSim(DefaultWeather, tyres, 0) EXCEPT !.race_started = TRUE,
                                                          !.speed_multiplier = 1]
    /\ active_connections = Readers
    /\ probe = NoProbe

RaceTick == SimulationLoop /\ active_connections' = active_connections

RaceNext == RaceTick

RaceSpec == RaceInit /\ [][RaceNext]_vars

(***************************************************************************)
(* The race engine of two cars with reset_race: ticked, reset and started  *)
(* again.                                                                  *)
(***************************************************************************)
ResetInit ==
    /\ \E tyres \in [Cars -> DryTyres] :
           sim = [NewSim(DefaultWeather, tyres, 0) EXCEPT !.race_started = TRUE,
                                                          !.speed_multiplier = 1]
    /\ active_connections = Readers
    /\ probe = NoProbe

ResetNext ==
    \/ RaceTick
    \/ reset_race
    \/ start_race

ResetSpec == ResetInit /\ [][ResetNext]_vars

(***************************************************************************)
(* The race engine of two cars with its flags: constructed, started,       *)
(* paused and resumed while the loop goes on calling step().               *)
(***************************************************************************)
PauseInit ==
    /\ \E tyres \in [Cars -> DryTyres] :
           sim = [NewSim(DefaultWeather, tyres, 0) EXCEPT !.speed_multiplier = 1]
    /\ active_connections = Readers
    /\ probe = NoProbe

PauseNext ==
    \/ RaceTick
    \/ start_race
    \/ pause_race
    \/ resume_race

PauseSpec == PauseInit /\ [][PauseNext]_vars

(***************************************************************************)
(* The same engine with the first car late in a stint: its tank holds      *)
(* either the full load or the last litre, so that it can run dry before   *)
(* the race ends.                                                          *)
(***************************************************************************)
StintFuel == {1000, FuelCapacity}

FuelInit ==
    /\ \E tyres \in [Cars -> DryTyres], fuel \in StintFuel :
           sim = [NewSim(DefaultWeather, tyres, 0) EXCEPT
                      !.race_started = TRUE,
                      !.speed_multiplier = 1,
                      !.cars[1].fuel = fuel]
    /\ active_connections = Readers
    /\ probe = NoProbe

FuelSpec == FuelInit /\ [][ResetNext]_vars

(***************************************************************************)
(* Direct calls of pitstop_probability on a started race whose first car   *)
(* has run down to the drawn fuel, wear and lap count.                     *)
(***************************************************************************)
FuelLevels == {0, 4000, 4999, 5000, 10000, 10001, FuelCapacity}
WearLevels == {0, 7999, 8000, 8500, 9000, WearCap}

PitProbeInit ==
    /\ \E f \in FuelLevels, w \in WearLevels, l \in 0..(TotalLaps - 1) :
           sim = [NewSim(DefaultWeather, [i \in Cars |-> "MEDIUM"], 0) EXCEPT
                      !.race_started = TRUE,
                      !.cars[1].fuel = f,
                      !.cars[1].wear = w,
                      !.cars[1].laps_completed = l,
                      !.cars[1].s = l * TrackLength + GridSpacing]
    /\ active_connections = {}
    /\ probe = NoProbe

AskPitProbability(i) ==
    /\ probe' = [ op |-> "pitstop_probability",
                  car |-> i,
                  result |-> pitstop_probability(sim, i) ]
    /\ UNCHANGED << sim, active_connections >>

PitProbeNext == \E i \in DOMAIN sim.cars : AskPitProbability(i)

PitProbeSpec == PitProbeInit /\ [][PitProbeNext]_vars

(***************************************************************************)
(* The lap count of step() on its own: a distance covered in n small       *)
(* steps, and in one step of the same length.                              *)
(***************************************************************************)
LapStarts == {0, TrackLength \div 2, TrackLength - 1, TrackLength}
LapMoves == {1, TrackLength \div 4, TrackLength \div 2, TrackLength - 1}
MaxSplit == 4

\* laps_completed after a move of the given length that ends at s
LapsAfter(laps, s, moved) ==
    IF LapCrossed(s, moved, TrackLength) THEN laps + 1 ELSE laps

IdleInit ==
    /\ \E tyres \in [Cars -> {"MEDIUM"}] : sim = NewSim(DefaultWeather, tyres, 0)
    /\ active_connections = {}
    /\ probe = NoProbe

\* the distance n * moved from s0 in one step
LapLargeStep ==
    /\ probe.op = "none"
    /\ \E s0 \in LapStarts, moved \in LapMoves, n \in 1..MaxSplit :
           probe' = [ op |-> "laps", s0 |-> s0, moved |-> moved, n |-> n,
                      k |-> 0, s |-> s0, laps |-> 0,
                      large |-> LapsAfter(0, s0 + n * moved, n * moved) ]
    /\ UNCHANGED << sim, active_connections >>

\* the same distance in n steps of length moved
LapSmallStep ==
    /\ probe.op = "laps"
    /\ probe.k < probe.n
    /\ probe' = [probe EXCEPT !.k = @ + 1,
                              !.s = @ + probe.moved,
                              !.laps = LapsAfter(@, probe.s + probe.moved,
                                                 probe.moved)]
    /\ UNCHANGED << sim, active_connections >>

LapNext == LapLargeStep \/ LapSmallStep

LapSpec == IdleInit /\ [][LapNext]_vars

(***************************************************************************)
(* Direct calls of get_leaderboard on three cars with drawn distances and  *)
(* total times (the lap count is the number of laps the distance holds).   *)
(***************************************************************************)
RankDistances == {0, GridSpacing, TrackLength, TrackLength + GridSpacing}
RankTimes == {0, PIT_TIME_BASE}

RankedCar(i, s, total_time) ==
    [NewCar(i, "MEDIUM") EXCEPT !.s = s,
                                !.laps_completed = s \div TrackLength,
                                !.total_time = total_time]

AskLeaderboard ==
    /\ \E s \in [RaceCars -> RankDistances], tt \in [RaceCars -> RankTimes] :
           LET cars == [i \in RaceCars |-> RankedCar(i, s[i], tt[i])]
           IN probe' = [ op |-> "get_leaderboard",
                         cars |-> cars,
                         sorted_cars |-> get_leaderboard(cars),
                         positions |-> [i \in RaceCars |->
                                           WithPositions(cars)[i].position],
                         nice_sorted_cars |-> nice_get_leaderboard(cars) ]
    /\ UNCHANGED << sim, active_connections >>

RankSpec == IdleInit /\ [][AskLeaderboard]_vars

(***************************************************************************)
(* simulation_loop followed await by await: the batch of steps and the     *)
(* snapshot, then one send_json after the other over the copy of the       *)
(* reader set, then difference_update and the sleep.  Readers connect and  *)
(* go away at any await.                                                   *)
(***************************************************************************)
LoopReaders == {1, 2, 3}
NoReader == 0

\* the race is under way, so that a call of step() advances it
Running(s) == s.race_started /\ ~s.paused /\ ~s.race_finished

LoopAsleep == probe.op = "simulation_loop" /\ probe.pc = "sleep"
LoopSending == probe.op = "simulation_loop" /\ probe.pc = "send"

\* the loop at the top of an iteration that found the given readers
LoopRecord(pc, s, readers) ==
    [ op |-> "simulation_loop",
      pc |-> pc,
      running |-> Running(s),
      time |-> s.time,
      readers |-> readers,
      todo |-> readers,
      awaiting |-> NoReader,
      log |-> << >>,
      disconnected |-> {} ]

BroadcastInit ==
    /\ sim = [NewSim(DefaultWeather, [i \in Cars |-> "HARD"], 0) EXCEPT
                  !.race_started = TRUE,
                  !.speed_multiplier = 1]
    /\ active_connections = {}
    /\ probe = [LoopRecord("sleep", sim, {}) EXCEPT !.running = FALSE]

\* if sim and len(active_connections) > 0: the batch and state = get_state()
LoopBatch ==
    /\ LoopAsleep
    /\ active_connections # {}
    /\ \E after \in LoopSteps({[sim EXCEPT !.fin_log = << >>]},
                              steps_per_broadcast(sim.speed_multiplier)) :
           sim' = get_state(after)
    /\ probe' = LoopRecord("send", sim, active_connections)
    /\ UNCHANGED active_connections

\* the iteration that finds no reader: only the sleep
LoopIdle ==
    /\ LoopAsleep
    /\ active_connections = {}
    /\ probe' = LoopRecord("sleep", sim, {})
    /\ UNCHANGED << sim, active_connections >>

\* for connection in active_connections.copy(): await send_json(state)
SendBegin(r) ==
    /\ LoopSending
    /\ probe.awaiting = NoReader
    /\ r \in probe.todo
    /\ probe' = [probe EXCEPT !.awaiting = r, !.todo = @ \ {r}]
    /\ UNCHANGED << sim, active_connections >>

\* the awaited send returns
SendDone ==
    /\ LoopSending
    /\ probe.awaiting # NoReader
    /\ probe' = [probe EXCEPT !.awaiting = NoReader,
                              !.log = Append(@, << probe.awaiting, "sent" >>)]
    /\ UNCHANGED << sim, active_connections >>

\* a send that raises and leaves the loop
SendRaiseUncaught ==
    /\ LoopSending
    /\ probe.awaiting # NoReader
    /\ probe' = [probe EXCEPT !.pc = "raised",
                              !.log = Append(@, << probe.awaiting, "failed" >>)]
    /\ UNCHANGED << sim, active_connections >>

\* the awaited send raises: except WebSocketDisconnect / except Exception
SendRaise ==
    /\ LoopSending
    /\ probe.awaiting # NoReader
    /\ probe' = [probe EXCEPT !.awaiting = NoReader,
                              !.log = Append(@, << probe.awaiting, "failed" >>),
                              !.disconnected = @ \cup {probe.awaiting}]
    /\ UNCHANGED << sim, active_connections >>

\* active_connections.difference_update(disconnected) and the sleep
LoopSleep ==
    /\ LoopSending
    /\ probe.awaiting = NoReader
    /\ probe.todo = {}
    /\ active_connections' = active_connections \ probe.disconnected
    /\ probe' = [probe EXCEPT !.pc = "sleep"]
    /\ UNCHANGED sim

\* websocket_endpoint, run between the awaits of the loop
ReaderArrives(r) ==
    /\ r \notin active_connections
    /\ active_connections' = active_connections \cup {r}
    /\ UNCHANGED << sim, probe >>

ReaderLeaves(r) ==
    /\ r \in active_connections
    /\ active_connections' = active_connections \ {r}
    /\ UNCHANGED << sim, probe >>

BroadcastNext ==
    \/ LoopBatch
    \/ LoopIdle
    \/ \E r \in LoopReaders : SendBegin(r)
    \/ SendDone
    \/ SendRaise
    \/ LoopSleep
    \/ \E r \in LoopReaders : ReaderArrives(r)
    \/ \E r \in LoopReaders : ReaderLeaves(r)

BroadcastSpec == BroadcastInit /\ [][BroadcastNext]_vars

(***************************************************************************)
(* The dict get_state() returns, kept by its caller while the race goes    *)
(* on.  Numbers, strings and flags are copied into the dict; a list or a   *)
(* dict of the simulation put into it is the object itself, written here   *)
(* as a reference that is read from the live simulation.                   *)
(***************************************************************************)
Ref(path) == [ref |-> path]

\* CarState.to_dict
to_dict(car) ==
    [ name |-> car.name,
      position |-> car.position,
      laps |-> car.laps_completed,
      wear |-> car.wear,
      tyre |-> car.tyre,
      tire_temp |-> car.tire_temp,
      fuel |-> car.fuel,
      total_time |-> car.total_time,
      on_pit |-> car.on_pit,
      drs_active |-> car.drs_active,
      pitstop_history |-> Ref(<< "pitstop_history", car.name >>),
      pitstop_count |-> car.pitstop_count ]

\* RaceSim.get_undercut_summary: per car and pit stop (the list of the code
\* is in this order) the undercuts kept, each battle told by one driver only:
\* the first who gained, else the one who lost most
get_undercut_summary(s) ==
    LET Meaningful(data) ==
            Abs(data.time_gap_before) <= 5000 /\ Abs(data.time_gain) > 1000
        \* potential_undercuts of the battle of x and y, as << car, stop >>
        Potential(x, y) ==
            { ck \in {x, y} \X (1..MaxStops) :
                  /\ ck[2] <= Len(s.cars[ck[1]].pitstop_history)
                  /\ LET u == s.cars[ck[1]].pitstop_history[ck[2]].undercuts
                         o == IF ck[1] = x THEN y ELSE x
                     IN o \in DOMAIN u /\ Meaningful(u[o]) }
        Gain(ck, x, y) ==
            s.cars[ck[1]].pitstop_history[ck[2]].undercuts[
                IF ck[1] = x THEN y ELSE x].time_gain
        Before(a, b) == a[1] < b[1] \/ (a[1] = b[1] /\ a[2] < b[2])
        First(S) == CHOOSE a \in S : \A b \in S \ {a} : Before(a, b)
        \* included_battles[battle_id]; 0 if the battle is not included
        Included(x, y) ==
            LET P == Potential(x, y)
                won == {ck \in P : Gain(ck, x, y) > 0}
                lost == {ck \in P : Gain(ck, x, y) < 0}
                worst == {ck \in lost : \A o \in lost : Gain(ck, x, y) <= Gain(o, x, y)}
            IN IF won # {} THEN First(won)[1]
               ELSE IF lost # {} THEN First(worst)[1]
               ELSE 0
        Kept(c, k) ==
            LET u == s.cars[c].pitstop_history[k].undercuts
            IN { o \in DOMAIN u : Included(c, o) = c /\ Meaningful(u[o]) }
        stops == { ck \in (DOMAIN s.cars) \X (1..MaxStops) :
                       /\ ck[2] <= Len(s.cars[ck[1]].pitstop_history)
                       /\ Kept(ck[1], ck[2]) # {} }
    IN [ ck \in stops |->
           LET pitstop == s.cars[ck[1]].pitstop_history[ck[2]]
           IN [ car |-> ck[1], lap |-> pitstop.lap, pit_time |-> pitstop.pit_time,
                old_tyre |-> pitstop.tyre, new_tyre |-> pitstop.new_tyre,
                undercuts |-> [o \in Kept(ck[1], ck[2]) |-> pitstop.undercuts[o]] ] ]

\* a get_state that adds the undercut summary at any time
StateDictWithSummary(s) ==
    [undercut_summary |-> get_undercut_summary(s)] @@
    [ time |-> s.time,
      cars |-> [i \in DOMAIN s.cars |-> to_dict(s.cars[i])],
      weather |-> Ref(<< "weather" >>),
      total_laps |-> s.total_laps,
      race_finished |-> s.race_finished,
      race_started |-> s.race_started,
      paused |-> s.paused,
      speed_multiplier |-> s.speed_multiplier,
      race_events |-> Ref(<< "race_events" >>) ]

\* the dict built by RaceSim.get_state(): the undercut summary is added at
\* the end of the race only
StateDict(s) ==
    (IF s.race_finished THEN [undercut_summary |-> get_undercut_summary(s)]
     ELSE NoUndercuts) @@
    [ time |-> s.time,
      cars |-> [i \in DOMAIN s.cars |-> to_dict(s.cars[i])],
      weather |-> Ref(<< "weather" >>),
      total_laps |-> s.total_laps,
      race_finished |-> s.race_finished,
      race_started |-> s.race_started,
      paused |-> s.paused,
      speed_multiplier |-> s.speed_multiplier,
      race_events |-> Ref(<< "race_events" >>) ]

\* the object a reference of the dict points to, in the simulation s
Deref(r, s) ==
    CASE r.ref[1] = "pitstop_history" -> s.cars[r.ref[2]].pitstop_history
      [] r.ref[1] = "weather" -> s.weather
      [] r.ref[1] = "race_events" -> s.race_events

\* what a reader of the dict finds in it while the simulation is s
Content(d, s) ==
    [d EXCEPT !.cars = [i \in DOMAIN d.cars |->
                           [d.cars[i] EXCEPT !.pitstop_history = Deref(@, s)]],
              !.weather = Deref(@, s),
              !.race_events = Deref(@, s)]

SnapshotInit ==
    /\ \E tyres \in [Cars -> DryTyres] :
           sim = [NewSim(DefaultWeather, tyres, 0) EXCEPT !.race_started = TRUE,
                                                          !.speed_multiplier = 1]
    /\ active_connections = Readers
    /\ probe = NoProbe

\* state = sim.get_state(), the dict being kept: produced is what it held
\* when it was returned
TakeSnapshot ==
    /\ sim' = get_state(sim)
    /\ probe' = [ op |-> "get_state",
                  state |-> StateDict(sim'),
                  produced |-> Content(StateDict(sim'), sim') ]
    /\ UNCHANGED active_connections

SnapshotNext ==
    \/ RaceTick
    \/ TakeSnapshot

SnapshotSpec == SnapshotInit /\ [][SnapshotNext]_vars

(***************************************************************************)
(* The on-demand narrative features: POST /api/driver-insight/{name},      *)
(* GET /api/optimal-pit-strategy and a direct call of generate_insights,   *)
(* each waiting for the external generator, next to the simulation loop.   *)
(* The endpoints are coroutines of the event loop that also runs           *)
(* simulation_loop, and they call the generator synchronously.             *)
(***************************************************************************)
\* what the call of self.model.generate_content and the parsing of its
\* response can come to: a usable answer, the SIGALRM timeout, text that is
\* no JSON, an empty response, a transport error
GeneratorOutcomes == {"ok", "timeout", "malformed", "empty", "transport"}
GeneratorFaults == GeneratorOutcomes \ {"ok"}

\* type(e).__name__ of the exception the fault raises inside the inner try
ExceptionName(outcome) ==
    CASE outcome = "timeout" -> "TimeoutError"
      [] outcome = "malformed" -> "JSONDecodeError"
      [] outcome = "empty" -> "ValueError"
      [] outcome = "transport" -> "ConnectionError"

\* InsightsGenerator.generate_insights: the dict it returns
generate_insights(outcome) ==
    CASE outcome = "ok" -> [ drivers |-> "insights" ]
      [] outcome = "timeout" ->
             [ error |-> "API call timed out", error_type |-> "timeout",
               drivers |-> "none" ]
      [] outcome = "malformed" ->
             [ error |-> "Failed to parse JSON response",
               error_type |-> "json_parse_error",
               response_preview |-> "text", drivers |-> "none" ]
      [] OTHER ->
             [ error |-> "Error generating insights",
               error_type |-> ExceptionName(outcome), drivers |-> "none" ]

\* InsightsGenerator.generate_optimal_pit_strategy: the dict it returns
generate_optimal_pit_strategy(outcome) ==
    CASE outcome = "ok" -> [ one_stop_strategy |-> "strategy",
                             two_stop_strategy |-> "strategy",
                             key_insights |-> "insights" ]
      [] outcome = "timeout" ->
             [ error |-> "API call timed out", error_type |-> "timeout",
               one_stop_strategy |-> "none", two_stop_strategy |-> "none",
               key_insights |-> "none" ]
      [] outcome = "malformed" ->
             [ error |-> "Failed to parse JSON response",
               error_type |-> "json_parse_error",
               response_preview |-> "text",
               one_stop_strategy |-> "none", two_stop_strategy |-> "none",
               key_insights |-> "none" ]
      [] OTHER ->
             [ error |-> "Error generating optimal strategy",
               error_type |-> ExceptionName(outcome),
               one_stop_strategy |-> "none", two_stop_strategy |-> "none",
               key_insights |-> "none" ]

\* InsightsGenerator.generate_single_driver_insights: it returns the insights
\* or raises Exception(message), the message of the inner handler wrapped by
\* the outer one
generate_single_driver_insights(outcome) ==
    CASE outcome = "ok" -> [ returned |-> "insights" ]
      [] outcome = "timeout" ->
             [ raised |-> "Exception",
               message |-> "Unexpected error: API call timed out" ]
      [] outcome = "malformed" ->
             [ raised |-> "Exception",
               message |-> "Unexpected error: Failed to parse JSON response" ]
      [] OTHER ->
             [ raised |-> "Exception",
               message |-> "Unexpected error: Error generating insights" ]

\* the response of POST /api/driver-insight/{driver_name}
driver_insight_response(driver, outcome) ==
    LET insights == generate_single_driver_insights(outcome)
    IN IF "raised" \in DOMAIN insights
       THEN [ driver_name |-> driver, insights |-> "none", success |-> FALSE,
              error |-> insights.message ]
       ELSE [ driver_name |-> driver, insights |-> insights.returned,
              success |-> TRUE ]

\* the response of GET /api/optimal-pit-strategy
optimal_pit_strategy_response(outcome) ==
    [ success |-> TRUE, strategy |-> generate_optimal_pit_strategy(outcome) ]

GeneratorCalls == {"generate_insights", "driver_insight", "optimal_pit_strategy"}

\* what the caller of the feature gets
FeatureResult(op, driver, outcome) ==
    CASE op = "generate_insights" -> generate_insights(outcome)
      [] op = "driver_insight" -> driver_insight_response(driver, outcome)
      [] op = "optimal_pit_strategy" -> optimal_pit_strategy_response(outcome)

\* a call of generate_content is under way
Generating == probe.op \in GeneratorCalls /\ probe.pc = "generating"

\* the call under way was made by an endpoint: a coroutine of the event loop
\* is inside the synchronous generate_content and holds the loop's thread
EventLoopHeld ==
    Generating /\ probe.op \in {"driver_insight", "optimal_pit_strategy"}

InsightInit ==
    /\ \E tyres \in [Cars -> DryTyres] :
           sim = [NewSim(DefaultWeather, tyres, 0) EXCEPT !.race_started = TRUE,
                                                          !.speed_multiplier = 1]
    /\ active_connections = Readers
    /\ probe = NoProbe

\* an iteration of simulation_loop, run when the event loop gives it the turn
InsightLoop == ~EventLoopHeld /\ RaceTick

\* the endpoints up to the call of the generator: HTTP 400 before the race
\* is finished, 404 for an unknown driver
RequestInsight(op, driver) ==
    /\ ~Generating
    /\ op \in {"driver_insight", "optimal_pit_strategy"}
    /\ probe' = IF ~sim.race_finished
                THEN [ op |-> op, pc |-> "returned", outcome |-> "none",
                       result |-> [ status_code |-> 400 ] ]
                ELSE IF op = "driver_insight" /\ driver \notin DOMAIN sim.cars
                THEN [ op |-> op, pc |-> "returned", outcome |-> "none",
                       result |-> [ status_code |-> 404 ] ]
                ELSE [ op |-> op, pc |-> "generating", driver |-> driver ]
    /\ sim' = IF sim.race_finished /\ probe'.pc = "generating"
              THEN [sim EXCEPT !.cars = WithPositions(sim.cars)]
              ELSE sim
    /\ UNCHANGED active_connections

\* RaceSim.get_race_insights: per driver, in leaderboard order, the final
\* position and the kinds of insight and recommendation given (the texts are
\* left out)
get_race_insights(s) ==
    LET cars == WithPositions(s.cars)
    IN [ i \in DOMAIN cars |->
           LET car == cars[i]
               stopped == Len(car.pitstop_history) > 0
               gains == { car.pitstop_history[k[1]].undercuts[k[2]].time_gain :
                            k \in { x \in (1..Len(car.pitstop_history)) \X DOMAIN s.cars :
                                      x[2] \in DOMAIN car.pitstop_history[x[1]].undercuts } }
               position_change == i - car.position
           IN [ name |-> car.name,
                final_position |-> car.position,
                total_time |-> car.total_time,
                pitstops |-> Len(car.pitstop_history),
                insights |->
                    (IF stopped /\ \E g \in gains : g > 1000
                     THEN {"undercut_success"} ELSE {})
                    \cup (IF stopped /\ \E g \in gains : g < -1000
                          THEN {"undercut_failure"} ELSE {})
                    \cup (IF position_change > 0 THEN {"position_gain"} ELSE {})
                    \cup (IF position_change < 0 THEN {"position_loss"} ELSE {}),
                recommendations |->
                    (IF Len(car.pitstop_history) > 2 THEN {"multiple_pitstops"} ELSE {})
                    \cup (IF /\ stopped
                             /\ s.weather.rain > 30
                             /\ \A k \in 1..Len(car.pitstop_history) :
                                    car.pitstop_history[k].new_tyre # "WET"
                          THEN {"wet_tyres"} ELSE {}) ] ]

\* GET /api/race-insights
RequestRaceInsights ==
    /\ ~Generating
    /\ probe' = [ op |-> "race_insights", pc |-> "returned", outcome |-> "none",
                  result |-> IF ~sim.race_finished
                             THEN [ message |-> "Race not finished yet",
                                    insights |-> NoUndercuts ]
                             ELSE [ insights |-> get_race_insights(sim),
                                    race_finished |-> TRUE ] ]
    /\ sim' = IF sim.race_finished THEN [sim EXCEPT !.cars = WithPositions(sim.cars)]
              ELSE sim
    /\ UNCHANGED active_connections

\* a direct call of generate_insights, made outside the event loop
CallGenerateInsights ==
    /\ ~Generating
    /\ probe' = [ op |-> "generate_insights", pc |-> "generating", driver |-> 0 ]
    /\ UNCHANGED << sim, active_connections >>

\* generate_content returns or raises and the feature hands its result back
GeneratorResponds(outcome) ==
    /\ Generating
    /\ probe' = [ op |-> probe.op, pc |-> "returned", outcome |-> outcome,
                  result |-> FeatureResult(probe.op, probe.driver, outcome) ]
    /\ UNCHANGED << sim, active_connections >>

InsightNext ==
    \/ InsightLoop
    \/ \E op \in GeneratorCalls, driver \in 0..Len(sim.cars) : RequestInsight(op, driver)
    \/ RequestRaceInsights
    \/ CallGenerateInsights
    \/ \E outcome \in GeneratorOutcomes : GeneratorResponds(outcome)

InsightSpec == InsightInit /\ [][InsightNext]_vars

(***************************************************************************)
(* Properties                                                              *)
(***************************************************************************)
Pending == sim.pending_undercuts
PendingKey(p) == << p.driver_a, p.driver_b, p.origin >>
LastStop(car) == car.pitstop_history[Len(car.pitstop_history)]

\* C1: the pending-undercut list holds at most one entry for any unordered
\* pair of drivers: (A,B) and (B,A) never coexist and (A,B) never appears
\* twice.
C1_OnePendingPerPair ==
    \A p, q \in 1..Len(Pending) :
        p # q => {Pending[p].driver_a, Pending[p].driver_b}
                     # {Pending[q].driver_a, Pending[q].driver_b}

\* an entry (A,B) left from the race before is pending and B has just entered
\* the pits with A on the track, on B's lap and level on total_time when B
\* came in: only the existing entry kept (B,A) from being added
C1_Witness ==
    \E p \in 1..Len(Pending) :
        LET a == sim.cars[Pending[p].driver_a]
            b == sim.cars[Pending[p].driver_b]
        IN /\ Pending[p].origin[1] < sim.race
           /\ b.on_pit /\ b.pit_counter >= PIT_TIME_BASE
           /\ ~a.on_pit /\ a.pitstop_count = 0
           /\ a.laps_completed = LastStop(b).lap
           /\ a.tyre \in DryTyres /\ b.tyre \in DryTyres

\* C2: a pending entry is consumed exactly once: no entry is finalized
\* twice, a finalized entry is no longer pending, one tick finalizes no
\* entry twice, and running finalize_undercut_battles a second time for the
\* same car changes neither the histories nor the pending list.
C2_FinalizedOnce ==
    /\ ~sim.reconsumed
    /\ \A q \in 1..Len(Pending) : PendingKey(Pending[q]) \notin sim.consumed
    /\ \A j, k \in 1..Len(sim.fin_log) :
           j # k => PendingKey(sim.fin_log[j]) # PendingKey(sim.fin_log[k])
    /\ \A b \in DOMAIN sim.cars :
           LET once == finalize_undercut_battles(sim, b)
               twice == finalize_undercut_battles(once, b)
           IN /\ twice.cars = once.cars
              /\ twice.pending_undercuts = once.pending_undercuts

\* the tick finalized two entries of the same car B, records written on
\* both sides
C2_Witness ==
    \E j, k \in 1..Len(sim.fin_log) :
        /\ j # k
        /\ sim.fin_log[j].driver_b = sim.fin_log[k].driver_b
        /\ sim.fin_log[j].wrote_a /\ sim.fin_log[j].wrote_b

\* C3: at B's pit exit with a pending entry (A,B) the swing is
\* gap_before - gap_after; below 1.0 s the entry is removed and nothing is
\* written to either history, otherwise one record is written into A's
\* history and one into B's, B's time_gain being the negation of A's.
C3_SwingThreshold ==
    \A k \in 1..Len(sim.fin_log) :
        LET e == sim.fin_log[k]
        IN /\ e.undercut_time = e.gap_before - e.gap_after
           /\ \A q \in 1..Len(Pending) : PendingKey(Pending[q]) # PendingKey(e)
           /\ IF Abs(e.undercut_time) < 1000
              THEN ~e.wrote_a /\ ~e.wrote_b
              ELSE e.wrote_a /\ e.wrote_b /\ e.gain_b = -e.gain_a

\* the stops of car i that hold an undercut record against car o
StopsAgainst(i, o) ==
    { k \in 1..Len(sim.cars[i].pitstop_history) :
          o \in DOMAIN sim.cars[i].pitstop_history[k].undercuts }

\* C4: B's history holds an undercut record against A if and only if A's
\* history holds one against B for the same battle, with negated time_gain:
\* each battle once per side, never on one side only.
C4_SymmetricRecords ==
    \A a, b \in DOMAIN sim.cars :
        /\ Cardinality(StopsAgainst(b, a)) = Cardinality(StopsAgainst(a, b))
        /\ \A k \in StopsAgainst(b, a) :
               \E j \in StopsAgainst(a, b) :
                   sim.cars[a].pitstop_history[j].undercuts[b].time_gain
                       = -sim.cars[b].pitstop_history[k].undercuts[a].time_gain

\* C5: with fuel below the critical floor of 5.0 l pitstop_probability
\* returns exactly 1.0, whatever the wear and the laps remaining.
C5_FuelFloorForcesPit ==
    probe.op = "pitstop_probability" =>
        (sim.cars[probe.car].fuel < 5000 => probe.result = One)

C7_WearFuelBounds ==
    \A i \in DOMAIN sim.cars :
        /\ 0 <= sim.cars[i].wear /\ sim.cars[i].wear <= WearCap
        /\ 0 <= sim.cars[i].fuel /\ sim.cars[i].fuel <= FuelCapacity

\* one car has run its tank dry and stands still on tyres worn to the cap
\* while the other, refuelled on its pit entry, is back on the track
C7_Witness ==
    \E i, j \in DOMAIN sim.cars :
        /\ sim.cars[i].fuel = 0 /\ sim.cars[i].v = 0
        /\ sim.cars[i].wear = WearCap
        /\ sim.cars[j].pitstop_count > 0 /\ ~sim.cars[j].on_pit
        /\ sim.cars[j].fuel > 0

\* C8: laps_completed counts every crossing of a multiple of total_length,
\* whatever the step size: n small steps give the lap count of one step
\* over the same distance, the number of multiples crossed.
C8_LapCountAnyStep ==
    probe.op = "laps" =>
        /\ probe.laps = FloorDiv(probe.s, TrackLength) - FloorDiv(probe.s0, TrackLength)
        /\ probe.k = probe.n => probe.large = probe.laps

\* a above b by the three keys: more laps, else more distance, else less
\* total_time
RankedAbove(a, b, dist(_)) ==
    \/ a.laps_completed > b.laps_completed
    \/ a.laps_completed = b.laps_completed /\ dist(a) > dist(b)
    \/ /\ a.laps_completed = b.laps_completed
       /\ dist(a) = dist(b)
       /\ a.total_time < b.total_time

\* the sequence holds every car exactly once and no car stands below a car
\* it is ranked above
ConsistentOrder(cars, sq, dist(_)) ==
    /\ Len(sq) = Len(cars)
    /\ \A i \in DOMAIN cars : \E k \in 1..Len(sq) : sq[k] = i
    /\ \A p, q \in 1..Len(sq) :
           RankedAbove(cars[sq[p]], cars[sq[q]], dist) => p < q

CumulativeDistance(c) == c.s
LapDistance(c) == c.s % TrackLength

\* C9: get_leaderboard is consistent with the three-key comparator (laps
\* desc, distance desc, total_time asc): of two cars whose keys differ the
\* better one is ranked above, a car ahead on laps always, and the positions
\* are the rank of each car, the distinct values 1..N.
C9_LeaderboardOrder ==
    probe.op = "get_leaderboard" =>
        /\ ConsistentOrder(probe.cars, probe.sorted_cars, CumulativeDistance)
        /\ ConsistentOrder(probe.cars, probe.nice_sorted_cars, LapDistance)
        /\ \A i \in DOMAIN probe.cars :
               /\ probe.positions[i] \in 1..Len(probe.cars)
               /\ probe.sorted_cars[probe.positions[i]] = i
        /\ \A i, j \in DOMAIN probe.cars :
               i # j => probe.positions[i] # probe.positions[j]

\* two cars level on laps and distance and apart on total_time, a third one
\* a lap ahead
C9_Witness ==
    /\ probe.op = "get_leaderboard"
    /\ \E i, j, l \in DOMAIN probe.cars :
           /\ i < j
           /\ probe.cars[i].s = probe.cars[j].s
           /\ probe.cars[i].total_time > probe.cars[j].total_time
           /\ probe.positions[j] < probe.positions[i]
           /\ probe.cars[l].laps_completed > probe.cars[i].laps_completed
           /\ probe.positions[l] = 1

\* C10: once race_finished is set, no tick advances the simulated time or
\* any car until the simulation is initialized again (/api/start,
\* /api/reset), and race_finished stays set until then.
C10_FinishedStops ==
    [][sim.race_finished =>
           \/ ApiStart
           \/ ApiReset
           \/ /\ sim'.race_finished
              /\ sim'.race_started = sim.race_started
              /\ sim'.time = sim.time
              /\ sim'.cars = sim.cars]_vars

\* the race is finished, started and not paused, with a reader connected:
\* the loop runs its batch on the finished race
C10_Witness ==
    /\ sim.race_finished /\ sim.race_started /\ ~sim.paused
    /\ active_connections # {}
    /\ sim.time > 0

\* the fields of the simulation that a tick advances
Advancing(s) ==
    [ time |-> s.time,
      cars |-> [i \in DOMAIN s.cars |->
                   [ s |-> s.cars[i].s,
                     v |-> s.cars[i].v,
                     wear |-> s.cars[i].wear,
                     fuel |-> s.cars[i].fuel,
                     laps_completed |-> s.cars[i].laps_completed,
                     total_time |-> s.cars[i].total_time,
                     on_pit |-> s.cars[i].on_pit,
                     pit_counter |-> s.cars[i].pit_counter,
                     error_active |-> s.cars[i].error_active,
                     error_timer |-> s.cars[i].error_timer,
                     tyre |-> s.cars[i].tyre,
                     pitstop_history |-> s.cars[i].pitstop_history ]],
      pending_undercuts |-> s.pending_undercuts,
      race_events |-> s.race_events,
      race_finished |-> s.race_finished ]

\* C11: while the race is paused or not yet started, step() returns the
\* simulation as it got it and no tick changes the time, a car's distance,
\* speed, wear, fuel, laps, total_time, pit countdown or error timer, the
\* pending undercuts or the race events; pause_race and resume_race change
\* the pause flag and nothing else, so that the race resumes from the state
\* it was paused in.
C11_PauseFrame ==
    [][/\ (~sim.race_started \/ sim.paused)
              => /\ step(sim, sim.race_started, sim.paused) = {sim}
                 /\ Advancing(sim') = Advancing(sim)
       /\ (pause_race \/ resume_race)
              => sim' = [sim EXCEPT !.paused = sim'.paused, !.fin_log = << >>]]_vars

\* the race is paused in mid-course with a reader connected: cars are moving,
\* the loop runs its batch and the race is not finished
C11_Witness ==
    /\ sim.race_started /\ sim.paused /\ ~sim.race_finished
    /\ active_connections # {}
    /\ sim.time > 0
    /\ \E i \in DOMAIN sim.cars : sim.cars[i].v > 0 /\ sim.cars[i].laps_completed > 0

\* the condition RaceSim.__init__ and init_cars leave the simulation in
InitialCondition(s) ==
    /\ s.time = 0
    /\ ~s.race_started /\ ~s.paused /\ ~s.race_finished
    /\ s.speed_multiplier = 10
    /\ s.race_events = << >>
    /\ s.pending_undercuts = << >>
    /\ \A i \in DOMAIN s.cars :
           LET car == s.cars[i]
           IN /\ car.s = (i - 1) * GridSpacing /\ car.v = 0
              /\ car.laps_completed = 0 /\ car.total_time = 0
              /\ car.wear = 0 /\ car.fuel = FuelCapacity
              /\ ~car.on_pit /\ car.pit_counter = 0
              /\ car.pitstop_history = << >> /\ car.pitstop_count = 0
              /\ ~car.drs_active
              /\ ~car.error_active /\ car.error_timer = 0
              /\ car.error_speed_multiplier = 100

\* C12: reset_race returns the simulation to its initial condition: time 0,
\* not started, not paused, not finished, speed multiplier 1, every car's
\* distance, speed, laps, total_time, wear, fuel, pit status, pit-stop
\* history, DRS flag and error state as constructed, no pending undercut
\* entry and no race event left.
C12_ResetInitial ==
    [][reset_race => InitialCondition(sim')]_vars

\* C13: the loop ticks independently of the readers: every iteration that
\* finds the race started, not paused and not finished advances the
\* simulated time, whether zero, one or many readers are connected.
C13_TicksWithoutReaders ==
    (probe.op = "simulation_loop" /\ probe.running) => sim.time > probe.time

\* the loop's own next moves, the return of the send it awaits apart
LoopProceeds ==
    \/ \E r \in LoopReaders : SendBegin(r)
    \/ LoopSleep
    \/ LoopBatch

\* C14: the loop never blocks on a slow reader: while the send to one
\* reader has not completed, the loop can go on to the readers still to be
\* served, to the end of the iteration and to the next batch of ticks.
C14_SlowReaderNoDelay ==
    (LoopSending /\ probe.awaiting # NoReader) => ENABLED LoopProceeds

\* the readers of the iteration whose send had the given outcome
Outcome(what) ==
    { probe.log[k][1] : k \in { j \in 1..Len(probe.log) : probe.log[j][2] = what } }

\* C15: a send that fails changes nothing of the simulation and leaves the
\* loop in its broadcast, with the same readers still to be served; at the
\* end of the iteration every reader of the broadcast set has either got
\* the snapshot or failed, the failed ones and only they are removed from
\* active_connections, and the loop is back at its sleep.
C15_FailedReaderDropped ==
    [][/\ SendRaise => /\ sim' = sim
                       /\ LoopSending'
                       /\ probe'.todo = probe.todo
       /\ LoopSleep => /\ sim' = sim
                       /\ LoopAsleep'
                       /\ Outcome("failed") = probe.disconnected
                       /\ Outcome("sent") = probe.readers \ probe.disconnected
                       /\ active_connections' = active_connections \ probe.disconnected]_vars

\* the broadcast of one iteration is over: the send to one reader failed
\* and a reader served after it got the snapshot
C15_Witness ==
    /\ LoopSending /\ probe.todo = {} /\ probe.awaiting = NoReader
    /\ \E j, k \in 1..Len(probe.log) :
           /\ j < k
           /\ probe.log[j][2] = "failed"
           /\ probe.log[k][2] = "sent"
    /\ sim.time > 0

\* C16: a snapshot produced by get_state is immutable: whatever steps
\* follow, a reader finds in it what it held when it was produced (times,
\* car fields, pit-stop histories, race events, weather).
C16_SnapshotImmutable ==
    probe.op = "get_state" => Content(probe.state, sim) = probe.produced

\* C17: no operation blocks the step loop waiting on the generator: while
\* a request is inside its call of the external service, the simulation
\* loop can run its next iteration (batch and publication).
C17_GeneratorNoBlocking ==
    EventLoopHeld => ENABLED InsightLoop

\* the part of a feature's result that reports a fault
ErrorOf(op, result) ==
    IF op = "optimal_pit_strategy" THEN result.strategy ELSE result

\* C18: every generator fault (timeout, malformed or empty response,
\* transport error) comes back from generate_insights, the driver-insight
\* endpoint and the optimal-pit-strategy endpoint as a typed error result:
\* the result carries an error_type, and no other kind of fault gives the
\* same one.
C18_TypedFaults ==
    (probe.op \in GeneratorCalls /\ probe.pc = "returned"
                                 /\ probe.outcome \in GeneratorFaults)
        => LET e == ErrorOf(probe.op, probe.result)
           IN /\ "error_type" \in DOMAIN e
              /\ \A f \in GeneratorFaults \ {probe.outcome} :
                     ErrorOf(probe.op, FeatureResult(probe.op, 0, f)).error_type
                         # e.error_type

\* the cars as car i finds them in the for loop of the step from sim to
\* sim': the cars before it in self.cars have made their move
SeenBy(i) ==
    [j \in DOMAIN sim.cars |-> IF j < i THEN sim'.cars[j] ELSE sim.cars[j]]

\* the gap of car to other in seconds is in (0, 1.0]: the distance by which
\* other leads car (s is the distance covered since the start, completed laps
\* included) over the speed of car
WithinOneSecond(car, other) ==
    LET distance == other.s - car.s
    IN car.v > 10 /\ 0 < distance /\ distance <= car.v

\* the DRS rule for car i on the cars as given by cars, ranked by the
\* leaderboard taken at the start of the step
DrsRule(i, cars) ==
    LET sorted_cars == get_leaderboard(sim.cars)
        rank == IndexOf(sorted_cars, i)
        leader == cars[sorted_cars[1]]
        within_lap == sim.cars[i].s % TrackLength
    IN /\ leader.laps_completed >= 3
       /\ rank > 1
       /\ 35 * TrackLength <= 100 * within_lap
       /\ 100 * within_lap <= 45 * TrackLength
       /\ WithinOneSecond(sim.cars[i], cars[sorted_cars[rank - 1]])
       /\ WithinOneSecond(sim.cars[i], leader)

\* C19: in each tick a car that is not in the pits has DRS active only if, by
\* the leaderboard taken at the start of the step, the leader has completed
\* 3 laps or more, the car is not the leader, its within-lap distance is in
\* [0.35 L, 0.45 L] and its time gap to the car immediately ahead and to the
\* leader is in (0, 1.0] s. The gaps are accepted as they are at the start of
\* the step and as the car finds them in the loop.
C19_DrsRule ==
    [][(RaceTick /\ ~sim.race_finished)
           => \A i \in DOMAIN sim.cars :
                  (~sim.cars[i].on_pit /\ sim'.cars[i].drs_active)
                      => (DrsRule(i, sim.cars) \/ DrsRule(i, SeenBy(i)))]_vars

\* the third car of the leaderboard runs with DRS active
C19_Witness ==
    \E i \in DOMAIN sim.cars :
        /\ sim.cars[i].drs_active
        /\ sim.cars[i].position = 3
        /\ ~sim.cars[i].on_pit


(***************************************************************************)
(* Direct calls of tyre_grip_coeff, of server.py and of nice.py, on one    *)
(* car fitted with each compound in turn at a drawn wear and rain.         *)
(***************************************************************************)
GripWears == {0, 2500, 5000, 7600, 7700, 8000, WearCap}
GripRains == {0, 50, 100}
GripTemps == {60, 100, 130}
GripSkills == {75, 100}

\* RaceSim.tyre_grip_coeff of nice.py, in 1/10000 (driver_skill in percent,
\* tire_temp in degrees)
nice_tyre_grip_coeff(car, weather) ==
    LET base == TYRE_BASE(car.tyre) * 100
        wear_impact == IF car.tyre = "SOFT" THEN 6
                       ELSE IF car.tyre = "MEDIUM" THEN 5 ELSE 4
        g0 == (base * (10000 - (wear_impact * car.wear) \div 10)) \div 10000
        temp == car.tire_temp
        temp_factor == Max(700, 1000 - 2 * Abs(temp - 100))
        g1 == IF temp < 80 \/ temp > 120 THEN (g0 * temp_factor) \div 1000 ELSE g0
        g2 == IF car.tyre = "WET"
              THEN (g1 * (200 + weather.rain)) \div 200
              ELSE (g1 * (1000 - 9 * weather.rain)) \div 1000
        g3 == (g2 * (8000 + 40 * car.driver_skill)) \div 10000
    IN Max(g3, 500)

\* sim.tyre_grip_coeff(car) of server.py for car i on every compound
AskGrip(i) ==
    \E w \in GripWears, r \in GripRains :
        /\ probe' = [ op |-> "tyre_grip_coeff", file |-> "server.py",
                      car |-> i, wear |-> w, rain |-> r,
                      grip |-> [t \in Tyres |->
                                   tyre_grip_coeff(
                                       [sim.cars[i] EXCEPT !.tyre = t, !.wear = w],
                                       [sim.weather EXCEPT !.rain = r])] ]
        /\ UNCHANGED << sim, active_connections >>

\* sim.tyre_grip_coeff(car) of nice.py for a car on every compound
AskGripNice ==
    \E w \in GripWears, r \in GripRains, k \in GripSkills, temp \in GripTemps :
        /\ probe' = [ op |-> "tyre_grip_coeff", file |-> "nice.py",
                      car |-> [driver_skill |-> k, tire_temp |-> temp],
                      wear |-> w, rain |-> r,
                      grip |-> [t \in Tyres |->
                                   nice_tyre_grip_coeff(
                                       [tyre |-> t, wear |-> w, driver_skill |-> k,
                                        tire_temp |-> temp],
                                       [rain |-> r])] ]
        /\ UNCHANGED << sim, active_connections >>

GripNext == (\E i \in DOMAIN sim.cars : AskGrip(i)) \/ AskGripNice

GripSpec == IdleInit /\ [][GripNext]_vars

\* C20: for cars equal in wear and skill the grip coefficient of the WET
\* compound is greater than that of SOFT, MEDIUM and HARD at rain = 1.0 and
\* smaller than that of each of them at rain = 0.0.
C20_WetGrip ==
    probe.op = "tyre_grip_coeff"
        => \A t \in DryTyres :
               /\ probe.rain = 100 => probe.grip["WET"] > probe.grip[t]
               /\ probe.rain = 0 => probe.grip["WET"] < probe.grip[t]


(***************************************************************************)
(* Direct calls of pitstop_probability for a leader in the stretchable     *)
(* wear band with the second car placed at a drawn distance behind it, on  *)
(* the same lap or on the lap before.                                      *)
(***************************************************************************)
\* the distance by which car 2 is behind car 1
GapDistances == {1000, 14000, 15000, 15001, 27000, 27001, 60000, 101000, 140000}

\* car 2 placed the given distance behind car 1
PlacedBehind(s, d) ==
    [s EXCEPT !.cars[2].s = s.cars[1].s - d,
              !.cars[2].laps_completed = (s.cars[1].s - d) \div TrackLength]

GapInit ==
    /\ \E w \in {8000, 8400, 8500, 8999}, v \in {5000, 9000},
          s1 \in {TrackLength + 500, TrackLength + 50000}, d \in GapDistances :
           sim = PlacedBehind(
                     [NewSim(DefaultWeather, [i \in Cars |-> "MEDIUM"], 0) EXCEPT
                          !.race_started = TRUE,
                          !.cars[1].wear = w,
                          !.cars[1].v = v,
                          !.cars[2].v = v,
                          !.cars[1].laps_completed = 1,
                          !.cars[1].s = s1], d)
    /\ active_connections = {}
    /\ probe = NoProbe

GapSpec == GapInit /\ [][PitProbeNext]_vars

\* the time gap of car 1 to car 2 behind it exceeds 3 s
GapOver3(s) == s.cars[1].s - s.cars[2].s > 3 * s.cars[1].v

\* C21: for a car in the stretchable wear band (0.8 <= wear < 0.9), all else
\* equal, the pit probability is strictly lower when its time gap to the car
\* behind exceeds 3 s than when that gap is at most 3 s, wherever the two
\* cars are on the track (different laps, either side of the line).
C21_GapStretch ==
    (probe.op = "pitstop_probability" /\ probe.car = 1 /\ GapOver3(sim))
        => \A d \in GapDistances :
               ~GapOver3(PlacedBehind(sim, d))
                   => probe.result < pitstop_probability(PlacedBehind(sim, d), 1)


(***************************************************************************)
(* nice.py: RaceSim with its optional plug-in modules (enhanced_physics,   *)
(* lidar_simulator, controller_adapter, advanced_driving).  The modules    *)
(* that can be imported are drawn at the start; what a plug-in returns, or *)
(* that it raises, is drawn at each call.  Here sim is the RaceSim object  *)
(* of nice.py: constructed ("no", "ok" or the exception that left          *)
(* __init__), modules, physics_engine, lidar_simulator, advanced_driving,  *)
(* controller_adapters, cars, time, race_started, weather, incidents (the  *)
(* random incidents so far), calls (the calls of step so far) and raised,  *)
(* the exception that left the last call of step ("none" if it returned).  *)
(* Speeds in cm/s, fuel in 1/1000, tire_temp in 1/100 degree.  Per car,    *)
(* control records where throttle and brake of the last tick came from,    *)
(* fault the plug-in that raised for the car in that tick, and ticks       *)
(* counts the loop bodies of step the car has completed.                   *)
(***************************************************************************)
PlugIns == {"enhanced_physics", "lidar_simulator", "controller_adapter",
            "advanced_driving"}
NiceDt == 500
NICE_PIT_TIME == 22000
MaxNiceSteps == 2
MaxIncidents == 1

\* what the plug-ins return to one car in one tick: the motor output of the
\* controller in tenths, the slipstream boost of advanced_driving in percent
\* (100: no car ahead) and the speed the physics engine adds
PlugInOutputs ==
    { [motor |-> -10, boost |-> 100, gain |-> 0],
      [motor |-> 10, boost |-> 105, gain |-> 300] }

\* the draws of one car in one tick: the module that raises (or "none"),
\* what the plug-ins return, and the random incident
PlugInDraws(s) ==
    [ fault : {"none"} \cup s.modules, out : PlugInOutputs,
      incident : IF s.incidents < MaxIncidents THEN {"none", "pit"} ELSE {"none"} ]

NiceCar(i, tyre) ==
    [ name |-> i, driver_skill |-> 75 + 10 * i, tyre |-> tyre, wear |-> 0,
      fuel |-> 100000, total_time |-> 0, laps_completed |-> 0,
      on_pit |-> FALSE, pit_counter |-> 0,
      s |-> ((i - 1) * (TrackLength \div 2) * 6) \div 10, v |-> 0,
      tire_temp |-> 3500, drs_active |-> FALSE,
      using_enhanced_physics |-> FALSE, control |-> "none", ticks |-> 0,
      fault |-> "none" ]

NiceGrip(car, weather) ==
    nice_tyre_grip_coeff([car EXCEPT !.tire_temp = @ \div 100], weather)

\* RaceSim.cornering_speed of nice.py
nice_cornering_speed(car, weather, curvature) ==
    LET grip == NiceGrip(car, weather)
        v == ISqrt(((grip * 1200) \div Max(curvature, 1)) * 10000)
    IN (v * (1000 - car.fuel \div 1000)) \div 1000

\* RaceSim.straight_speed of nice.py
nice_straight_speed(car, weather) ==
    LET b0 == ((8000 + 20 * car.driver_skill) * TYRE_BASE(car.tyre)) \div 100
        b1 == (b0 * (400 - weather.rain)) \div 400
        b2 == (b1 * (9500 + NiceGrip(car, weather) \div 10)) \div 10000
    IN (b2 * (1000 - car.fuel \div 1000)) \div 1000

\* RaceSim._basic_control: throttle and brake in tenths
basic_control(car, weather, curvature) ==
    LET target_v == Min(nice_straight_speed(car, weather),
                        nice_cornering_speed(car, weather, curvature))
    IN IF car.v < target_v THEN [throttle |-> 8, brake |-> 0]
       ELSE [throttle |-> 0, brake |-> 5]

\* RaceSim._basic_physics: the new car.v
basic_physics(car, weather, throttle, brake, curvature) ==
    LET v_straight == nice_straight_speed(car, weather)
        target_v == Min(v_straight, nice_cornering_speed(car, weather, curvature))
        v == IF car.v < target_v THEN car.v + 30 * throttle
             ELSE car.v - 50 * brake
    IN Max(0, Min(v, v_straight))

\* RaceSim.__init__ and init_cars of nice.py
NiceConstruct ==
    /\ sim.constructed = "no"
    /\ LET has(m) == m \in sim.modules
           \* init_cars imports controller_adapter for every car, outside
           \* any try
           built == [sim EXCEPT
                        !.physics_engine = has("enhanced_physics"),
                        !.lidar_simulator = has("lidar_simulator"),
                        !.advanced_driving = has("advanced_driving")]
       IN sim' = IF has("controller_adapter")
                 THEN [built EXCEPT !.constructed = "ok",
                                    !.controller_adapters = DOMAIN sim.cars]
                 ELSE [sim EXCEPT !.constructed = "ImportError"]
    /\ UNCHANGED << active_connections, probe >>

nice_start_race ==
    /\ sim.constructed = "ok"
    /\ ~sim.race_started
    /\ sim' = [sim EXCEPT !.race_started = TRUE]
    /\ UNCHANGED << active_connections, probe >>

\* the control and the speed of a running car i in one pass of the loop:
\* advanced_driving, the controller or the basic control, the physics engine
\* or the basic physics; the car and the throttle applied
NiceDrive(s, i, d) ==
    LET car == s.cars[i]
        curv == Curv(car.s)
        \* advanced_driving: detect_car_ahead .. check_overtaking_gap
        car_ahead == s.advanced_driving /\ d.out.boost > 100
        c1 == IF s.advanced_driving THEN [car EXCEPT !.drs_active = car_ahead]
              ELSE car
        \* controller, or the basic control
        controlled == i \in s.controller_adapters /\ d.fault # "controller_adapter"
        basic == basic_control(c1, s.weather, curv)
        throttle == IF controlled THEN Max(0, d.out.motor) ELSE basic.throttle
        brake == IF controlled THEN Max(0, -d.out.motor) ELSE basic.brake
        c2 == [c1 EXCEPT !.control = IF controlled THEN "controller" ELSE "basic",
                         !.v = IF car_ahead THEN (@ * d.out.boost) \div 100 ELSE @]
        \* physics engine, or the basic physics
        enhanced == s.physics_engine /\ d.fault # "enhanced_physics"
    IN [ car |-> [c2 EXCEPT !.v = IF enhanced THEN @ + d.out.gain
                                  ELSE basic_physics(c2, s.weather, throttle,
                                                     brake, curv),
                            !.using_enhanced_physics = enhanced],
         throttle |-> throttle ]

\* the rest of the pass for the car c3 that NiceDrive returns: the random
\* incident, wear, tyre temperature and fuel, the move and the lap count
NiceWearMove(s, c3, throttle, d) ==
    LET incident == d.incident = "pit" /\ s.incidents < MaxIncidents
        c4 == IF incident
              THEN [c3 EXCEPT !.on_pit = TRUE, !.pit_counter = NICE_PIT_TIME,
                              !.total_time = @ + NICE_PIT_TIME]
              ELSE c3
        grip == NiceGrip(c4, s.weather)
        wear_step == (5 * (10000 + (8 * (10000 - grip)) \div 10)
                        * TYRE_WEAR_RATES(c3.tyre)) \div 200000
        heat_factor == CASE c3.tyre = "SOFT" -> 12 [] c3.tyre = "MEDIUM" -> 10
                         [] c3.tyre = "HARD" -> 8 [] OTHER -> 9
        heat_gen == (((((c3.v * c3.v) \div 10000) * Curv(c3.s)) \div 10000)
                        * heat_factor) \div 1000
        cooling == (5 * (c3.tire_temp - 2500)) \div 100
        dtemp == FloorDiv(heat_gen - cooling, 2)
        moved == (c3.v * NiceDt) \div 1000
    IN [c4 EXCEPT
           !.wear = Min(@ + wear_step, WearCap),
           !.tire_temp = IF s.physics_engine THEN @
                         ELSE Max(2500, Min(@ + dtemp, 15000)),
           !.fuel = Max(0, @ - (10 * (20 + throttle)) \div 20),
           !.s = @ + moved,
           !.laps_completed = IF LapCrossed(c3.s + moved, moved, TrackLength)
                              THEN @ + 1 ELSE @,
           !.ticks = @ + 1,
           !.fault = d.fault]

\* one pass of the for loop of step for car i; sets raised if an exception
\* leaves the loop body
NiceStepCar(s, i, d) ==
    LET car == s.cars[i]
        \* in the pits: the countdown only
        left == car.pit_counter - NiceDt <= 0
        pit == IF left
               THEN [car EXCEPT !.on_pit = FALSE, !.pit_counter = 0,
                                !.wear = (@ * 15) \div 100, !.fuel = 100000,
                                !.ticks = @ + 1, !.fault = "none"]
               ELSE [car EXCEPT !.pit_counter = @ - NiceDt, !.ticks = @ + 1,
                                !.fault = "none"]
    IN IF car.on_pit THEN [s EXCEPT !.cars[i] = pit]
       ELSE IF s.advanced_driving /\ d.fault = "advanced_driving"
       THEN [s EXCEPT !.raised = "advanced_driving",
                      !.cars[i].fault = "advanced_driving"]
       ELSE LET driven == NiceDrive(s, i, d)
            IN [s EXCEPT !.cars[i] = NiceWearMove(s, driven.car, driven.throttle, d),
                         !.incidents = IF d.incident = "pit" /\ @ < MaxIncidents
                                       THEN @ + 1 ELSE @]

\* the for loop of step from car i on, for each simulation of ss: an
\* exception ends it
RECURSIVE NiceStepCars(_, _, _)
NiceStepCars(ss, i, draws) ==
    IF i > Cardinality(Cars) THEN ss
    ELSE NiceStepCars({ IF s.raised # "none" THEN s
                        ELSE NiceStepCar(s, i, draws[i]) : s \in ss },
                      i + 1, draws)

\* RaceSim.step of nice.py
nice_step ==
    /\ sim.constructed = "ok"
    /\ sim.calls < MaxNiceSteps
    /\ \E draws \in [DOMAIN sim.cars -> PlugInDraws(sim)] :
           \E called \in {[sim EXCEPT !.raised = "none", !.calls = @ + 1]} :
               \E after \in NiceStepCars({called}, 1, draws) :
                   sim' = IF ~sim.race_started THEN called
                          ELSE IF after.raised # "none" THEN after
                          ELSE [after EXCEPT !.time = @ + NiceDt]
    /\ UNCHANGED << active_connections, probe >>

NiceInit ==
    /\ \E modules \in SUBSET PlugIns, tyre \in {"SOFT", "HARD"} :
           sim = [ constructed |-> "no", modules |-> modules,
                   physics_engine |-> FALSE, lidar_simulator |-> FALSE,
                   advanced_driving |-> FALSE, controller_adapters |-> {},
                   cars |-> [i \in Cars |-> NiceCar(i, tyre)],
                   time |-> 0, race_started |-> FALSE,
                   weather |-> [rain |-> 0], incidents |-> 0,
                   calls |-> 0, raised |-> "none" ]
    /\ active_connections = {}
    /\ probe = NoProbe

NiceNext == NiceConstruct \/ nice_start_race \/ nice_step

NiceSpec == NiceInit /\ [][NiceNext]_vars

\* C22: with the optional plug-in modules absent, constructing a RaceSim
\* completes without error and every step then uses the built-in basic
\* control and basic physics for every car.
C22_CoreWithoutPlugIns ==
    (sim.modules = {} /\ sim.constructed # "no")
        => /\ sim.constructed = "ok"
           /\ \A i \in DOMAIN sim.cars :
                  sim.cars[i].ticks > 0
                      => /\ sim.cars[i].control = "basic"
                         /\ ~sim.cars[i].using_enhanced_physics

\* C23: if an optional plug-in raises during a tick, the fault is caught
\* inside the step: that car alone falls back to the built-in model for that
\* tick, the other cars are still updated and simulated time still advances;
\* no plug-in fault leaves step().
C23_PlugInFaultCaught ==
    [][(nice_step /\ sim.race_started)
           => /\ sim'.raised = "none"
              /\ sim'.time = sim.time + NiceDt
              /\ \A i \in DOMAIN sim.cars :
                     LET car == sim'.cars[i]
                     IN /\ car.ticks = sim.cars[i].ticks + 1
                        /\ ~sim.cars[i].on_pit
                               => /\ car.control = "basic"
                                      <=> car.fault = "controller_adapter"
                                  /\ ~car.using_enhanced_physics
                                      <=> (car.fault = "enhanced_physics"
                                               \/ ~sim.physics_engine)]_vars


(***************************************************************************)
(* The race engine of two cars under the speed control: set_speed with     *)
(* requests below, inside and above [0.1, 10] while the loop publishes.    *)
(***************************************************************************)
\* requests of set_speed, in tenths
SpeedSteps == {0, 1, 10, 35, 100, 150}

SpeedNext ==
    \/ RaceTick
    \/ start_race
    \/ pause_race
    \/ \E speed \in SpeedSteps : set_speed(speed)

SpeedSpec == PauseInit /\ [][SpeedNext]_vars

\* a control operation of the speed specification (every other step of it is
\* an iteration of the loop)
ControlOperation ==
    start_race \/ pause_race \/ \E speed \in SpeedSteps : set_speed(speed)

\* C24: set_speed clamps the multiplier to [0.1, 10]; the multiplier only
\* changes the number of physics ticks per publication interval, which is
\* max(1, floor(3 x multiplier)), between 1 and 30 and non-decreasing in the
\* multiplier; every tick advances time by the fixed dt, and no control
\* operation changes anything else than its own flag.
C24_SpeedMultiplier ==
    [][/\ sim'.speed_multiplier >= 1 /\ sim'.speed_multiplier <= 100
       /\ (\E speed \in SpeedSteps : set_speed(speed))
              => sim' = [sim EXCEPT !.speed_multiplier = sim'.speed_multiplier,
                                    !.fin_log = << >>]
       /\ ControlOperation => (sim'.time = sim.time /\ sim'.cars = sim.cars)
       /\ ~ControlOperation
              => LET n == steps_per_broadcast(sim.speed_multiplier)
                 IN /\ n >= 1 /\ n <= 30
                    /\ \A m \in 1..sim.speed_multiplier :
                           steps_per_broadcast(m) <= n
                    /\ sim'.speed_multiplier = sim.speed_multiplier
                    /\ \E k \in 0..n : sim'.time = sim.time + k * dt
                    /\ (sim.race_started /\ ~sim.paused /\ ~sim'.race_finished)
                           => sim'.time = sim.time + n * dt]_vars

\* the race runs at the clamped top speed
C24_Witness ==
    /\ sim.speed_multiplier = 100
    /\ sim.time > 0
    /\ ~sim.race_finished

\* a query for end-of-race insights: GET /api/race-insights, POST
\* /api/driver-insight/{name}, GET /api/optimal-pit-strategy
InsightQuery ==
    \/ RequestRaceInsights
    \/ \E op \in GeneratorCalls, driver \in 0..Len(sim.cars) : RequestInsight(op, driver)

\* a result without insight data: an error outcome or an empty result
NoInsight(result) ==
    \/ "status_code" \in DOMAIN result /\ result.status_code >= 400
    \/ "insights" \in DOMAIN result /\ DOMAIN result.insights = {}

\* C25: a published snapshot contains the race-wide undercut summary if and
\* only if race_finished is true, and an insight query made while the race
\* is unfinished returns no insight data (an empty result or an error) and
\* leaves the simulation as it is.
C25_EndOfRaceOutputs ==
    [][/\ ("undercut_summary" \in DOMAIN StateDict(sim')) <=> sim'.race_finished
       /\ (InsightQuery /\ ~sim.race_finished)
              => /\ sim' = sim
                 /\ probe'.pc = "returned"
                 /\ NoInsight(probe'.result)]_vars

\* the race is under way and a query for the race insights has come back
\* empty
C25_Witness ==
    /\ ~sim.race_finished
    /\ sim.time > 0
    /\ probe.op = "race_insights"
    /\ DOMAIN probe.result.insights = {}
    /\ "undercut_summary" \notin DOMAIN StateDict(sim)


(***************************************************************************)
(* The pit entry of step() on its own: four cars with drawn total times,   *)
(* compounds, laps and pit state and a pending entry that may be there     *)
(* already; one of them enters the pits.                                   *)
(***************************************************************************)
PitEntryInit ==
    /\ \E t1 \in {0, 5000, 5010}, t2 \in {0, 5000}, t4 \in {0, 5010},
          y1 \in {"SOFT", "WET"}, y2 \in {"MEDIUM", "WET"},
          p2 \in BOOLEAN, l3 \in {0, 1}, old \in {0, 1, 2} :
           LET new == NewSim(DefaultWeather,
                             [i \in 1..4 |-> IF i = 1 THEN y1
                                             ELSE IF i = 2 THEN y2 ELSE "HARD"], 0)
               cars == WithPositions(
                           [new.cars EXCEPT ![1].total_time = t1,
                                            ![2].total_time = t2,
                                            ![4].total_time = t4,
                                            ![2].on_pit = p2,
                                            ![2].pit_counter = IF p2 THEN PIT_TIME_BASE ELSE 0,
                                            ![3].laps_completed = l3,
                                            ![3].s = @ + l3 * TrackLength])
               \* the entry left by an earlier stop of car old against the
               \* other of the cars 1 and 2
               entry == [ driver_a |-> old, driver_b |-> 3 - old, a_pit_lap |-> 0,
                          gap_before |-> 0, tire_a |-> "HARD", tire_b |-> "HARD",
                          a_position |-> 1, b_position |-> 2,
                          origin |-> << 0, 0 >> ]
               stop == [ lap |-> 0, tyre |-> "HARD", pit_time |-> PIT_TIME_BASE,
                         new_tyre |-> cars[Max(old, 1)].tyre,
                         undercuts |-> NoUndercuts ]
           IN sim = [new EXCEPT
                        !.race_started = TRUE,
                        !.cars = IF old = 0 THEN cars
                                 ELSE [cars EXCEPT ![old].pitstop_count = 1,
                                                   ![old].pitstop_history = << stop >>],
                        !.pending_undercuts = IF old = 0 THEN << >> ELSE << entry >>]
    /\ active_connections = {}
    /\ probe = NoProbe

\* step(): car i enters the pits
EnterPits(i) ==
    /\ probe.op = "none"
    /\ ~sim.cars[i].on_pit
    /\ \E var \in PitVariations : sim' = PitEntry(sim, i, PIT_TIME_BASE + var)
    /\ probe' = [ op |-> "pit_entry", car |-> i, before |-> sim ]
    /\ UNCHANGED active_connections

PitEntryNext == \E i \in DOMAIN sim.cars : EnterPits(i)

PitEntrySpec == PitEntryInit /\ [][PitEntryNext]_vars

\* car b is one the claim lets car a open a battle with, on the cars as they
\* are at a's pit entry
Opponent(cars, a, b) ==
    /\ b # a
    /\ ~cars[b].on_pit
    /\ Abs(cars[b].total_time - cars[a].total_time) <= 5000
    /\ cars[b].laps_completed = cars[a].laps_completed
    /\ Abs(cars[b].position - cars[a].position) <= 2
    /\ \/ cars[b].tyre = cars[a].tyre
       \/ {cars[a].tyre, cars[b].tyre} \subseteq {"SOFT", "MEDIUM", "HARD"}

\* the pending entries of the pair a, b (either way round) in a list
EntriesOf(pending, a, b) ==
    { k \in 1..Len(pending) : {pending[k].driver_a, pending[k].driver_b} = {a, b} }

StintInit ==
    /\ \E tyres \in [RaceCars -> {"SOFT", "MEDIUM"}], w1 \in {8500, 9000},
          w2 \in {0, 8500}, v \in {0, 1000}, on3 \in BOOLEAN :
           LET new == NewSim(DefaultWeather, tyres, 0)
               stop(i) == [ lap |-> 0, tyre |-> "HARD",
                            pit_time |-> PIT_TIME_BASE + v,
                            new_tyre |-> IF i = 3 /\ on3 THEN "NONE" ELSE tyres[i],
                            undercuts |-> NoUndercuts ]
               stopped(car) == [car EXCEPT !.pitstop_count = 1,
                                           !.pitstop_history = << stop(car.name) >>,
                                           !.total_time = PIT_TIME_BASE + v,
                                           !.laps_completed = 1,
                                           !.v = 8000]
               cars == WithPositions(
                           [new.cars EXCEPT
                               ![1] = [stopped(@) EXCEPT !.wear = w1,
                                                         !.s = TrackLength + 30000],
                               ![2] = [@ EXCEPT !.wear = w2, !.laps_completed = 1,
                                                !.v = 8000,
                                                !.s = TrackLength + 50000],
                               ![3] = [stopped(@) EXCEPT
                                          !.s = TrackLength + 10000,
                                          !.tyre = IF on3 THEN "HARD" ELSE @,
                                          !.v = IF on3 THEN 0 ELSE @,
                                          !.on_pit = on3,
                                          !.pit_counter = IF on3 THEN dt ELSE 0]])
               entry(a, b, pa, pb) ==
                   [ driver_a |-> a, driver_b |-> b, a_pit_lap |-> 0,
                     gap_before |-> 0, tire_a |-> "HARD", tire_b |-> "HARD",
                     a_position |-> pa, b_position |-> pb, origin |-> << 0, 0 >> ]
           IN sim = [new EXCEPT !.race_started = TRUE,
                                !.speed_multiplier = 1,
                                !.time = 4 * dt,
                                !.cars = cars,
                                !.pending_undercuts =
                                    << entry(1, 2, 3, 2), entry(3, 1, 1, 3) >>]
    /\ active_connections = Readers
    /\ probe = NoProbe

StintSpec == StintInit /\ [][RaceNext]_vars

(***************************************************************************)
(* The race engine of two cars under a loop that keeps running.            *)
(* simulation_loop is a `while True' around a sleep, so its iterations     *)
(* keep coming: weak fairness of the tick.  An iteration calls step() when *)
(* a reader is connected and the race is started, not paused and not       *)
(* finished (Ticking), step() always returns, and the step it takes then   *)
(* advances sim.time by dt (Ticked); weak fairness is written with these:  *)
(* the tick is disabled again and again, or taken again and again.         *)
(***************************************************************************)
Ticking ==
    /\ active_connections # {}
    /\ sim.race_started
    /\ ~sim.paused
    /\ ~sim.race_finished

Ticked == sim'.time > sim.time

KeepsTicking == []<>~Ticking \/ []<><<Ticked>>_vars

PitFairSpec == FuelInit /\ [][RaceNext]_vars /\ KeepsTicking

(***************************************************************************)
(* The race engine of two cars around a pit exit: car 1 is in the pits     *)
(* with its countdown about to expire, car 2 has made its stop before and  *)
(* the battle (2, 1) is pending; the race length, rain and track           *)
(* temperature are drawn, and the race is followed for a few ticks.       *)
(***************************************************************************)
ExitTotalLaps == {8, 9, 11, 12}

ExitInit ==
    /\ \E tyres \in [Cars -> {"MEDIUM", "HARD"}], total_laps \in ExitTotalLaps,
          rain \in {60, 61}, track_temp \in {22, 30},
          counter \in {dt, dt + 10}, gap_before \in {0, 3000} :
           LET weather == [rain |-> rain, wind |-> 0, track_temp |-> track_temp]
               new == NewSim(weather, tyres, 0)
               stop(i) == [ lap |-> 1, tyre |-> "SOFT", pit_time |-> PIT_TIME_BASE,
                            new_tyre |-> IF i = 1 THEN "NONE" ELSE tyres[i],
                            undercuts |-> NoUndercuts ]
               stopped(car) == [car EXCEPT !.pitstop_count = 1,
                                           !.pitstop_history = << stop(car.name) >>,
                                           !.total_time = PIT_TIME_BASE,
                                           !.laps_completed = 2,
                                           !.fuel = FuelCapacity - 1000]
               cars == WithPositions(
                           [new.cars EXCEPT
                               ![1] = [stopped(@) EXCEPT
                                          !.s = 2 * TrackLength + 10000,
                                          !.tyre = "SOFT",
                                          !.wear = 8500,
                                          !.fuel = FuelCapacity,
                                          !.on_pit = TRUE,
                                          !.pit_counter = counter],
                               ![2] = [stopped(@) EXCEPT
                                          !.s = 2 * TrackLength + 80000,
                                          !.wear = 1000,
                                          !.v = 8000]])
               entry == [ driver_a |-> 2, driver_b |-> 1, a_pit_lap |-> 1,
                          gap_before |-> gap_before, tire_a |-> "SOFT",
                          tire_b |-> "SOFT", a_position |-> 2, b_position |-> 1,
                          origin |-> << 0, 0 >> ]
           IN sim = [new EXCEPT !.race_started = TRUE,
                                !.speed_multiplier = 1,
                                !.total_laps = total_laps,
                                !.time = 6 * dt,
                                !.cars = cars,
                                !.pending_undercuts = << entry >>]
    /\ active_connections = Readers
    /\ probe = NoProbe

\* the ticks followed after the pit exit
MaxExitTicks == 4

ExitTick == sim.time < (6 + MaxExitTicks) * dt /\ RaceTick

PitExitSpec == ExitInit /\ [][ExitTick]_vars

\* the stop of its driver_a that a pending entry or a finalization stems
\* from is the latest stop of that car when count is its pitstop_count
LatestStop(p, count) == p.origin = << sim.race, count - 1 >>

\* C27: when a car pits again while entries it initiated (as driver_a) are
\* unresolved, all of them are removed before new ones are created, so that a
\* later pit exit of the old opponent never finalizes a battle against an
\* earlier stop of that car; the entries in which it is the opponent
\* (driver_b) stay.
C27_StaleRemoved ==
    [][LET PitsAgain(c) == sim'.cars[c].pitstop_count > sim.cars[c].pitstop_count
           Keys(s) == { PendingKey(s.pending_undercuts[k]) :
                            k \in 1..Len(s.pending_undercuts) }
       IN /\ \A k \in 1..Len(sim'.pending_undercuts) :
                 LET p == sim'.pending_undercuts[k]
                 IN LatestStop(p, sim'.cars[p.driver_a].pitstop_count)
          /\ \A k \in 1..Len(sim'.fin_log) :
                 LET f == sim'.fin_log[k]
                 IN \/ LatestStop(f, sim'.cars[f.driver_a].pitstop_count)
                    \/ LatestStop(f, sim.cars[f.driver_a].pitstop_count)
          /\ \A k \in 1..Len(sim.pending_undercuts) :
                 LET p == sim.pending_undercuts[k]
                 IN /\ PitsAgain(p.driver_a)
                        => /\ PendingKey(p) \notin Keys(sim')
                           /\ PendingKey(p) \in sim'.discarded \cup sim'.consumed
                    /\ (PitsAgain(p.driver_b) /\ ~PitsAgain(p.driver_a))
                        => PendingKey(p) \in Keys(sim')]_vars

\* a car has pitted again with an entry of its first stop unresolved, which
\* was removed, and is itself the opponent in an entry that is still there
C27_Witness ==
    \E key \in sim.discarded :
        /\ sim.cars[key[1]].pitstop_count = 2
        /\ key \notin sim.consumed
        /\ \E k \in 1..Len(sim.pending_undercuts) :
               sim.pending_undercuts[k].driver_b = key[1]


(***************************************************************************)
(* C28: every pending undercut entry is consumed before the race finishes: *)
(* in a finished race no entry is pending, each entry created having been  *)
(* finalized or discarded.                                                 *)
(***************************************************************************)
C28_NonePendingAtFinish ==
    sim.race_finished => sim.pending_undercuts = << >>

C28_Witness ==
    /\ sim.race_finished
    /\ sim.pending_undercuts = << >>
    /\ sim.consumed # {}


(***************************************************************************)
(* C29: a car whose pit countdown expires in a tick leaves the pits with   *)
(* on_pit false, countdown 0, wear 0 and tyre temperature                  *)
(* max(80, ambient + 55); its compound is WET with rain above 0.6, else    *)
(* SOFT with at most 6 laps remaining, SOFT or MEDIUM with fewer than 10,  *)
(* any dry compound otherwise; the compound is written to its latest       *)
(* history entry, and every battle pending with the car as driver_b is     *)
(* finalized exactly once in the tick and is pending no more.              *)
(***************************************************************************)
Expires(i) ==
    /\ sim'.time > sim.time
    /\ sim.cars[i].on_pit
    /\ sim.cars[i].pit_counter - dt <= 0

C29_PitExit ==
    [][\A i \in DOMAIN sim.cars : Expires(i) =>
          LET car == sim'.cars[i]
              rain == sim.weather.rain
              laps_remaining == sim.total_laps - sim.cars[i].laps_completed
              ambient == sim.weather.track_temp * 10
              baseline == IF ambient + 550 > 800 THEN ambient + 550 ELSE 800
              Mine(p) == p.driver_b = i
              before == { PendingKey(sim.pending_undercuts[k]) :
                              k \in Indices(sim.pending_undercuts, Mine) }
              logged(key) == { k \in 1..Len(sim'.fin_log) :
                                   PendingKey(sim'.fin_log[k]) = key }
          IN /\ ~car.on_pit
             /\ car.pit_counter = 0
             /\ car.wear = 0
             /\ car.tire_temp = baseline
             /\ IF rain > 60 THEN car.tyre = "WET"
                ELSE IF laps_remaining <= 6 THEN car.tyre = "SOFT"
                ELSE IF laps_remaining < 10 THEN car.tyre \in {"SOFT", "MEDIUM"}
                ELSE car.tyre \in {"SOFT", "MEDIUM", "HARD"}
             /\ Len(car.pitstop_history) > 0
             /\ LastStop(car).new_tyre = car.tyre
             /\ \A key \in before :
                    /\ Cardinality(logged(key)) = 1
                    /\ \A k \in 1..Len(sim'.pending_undercuts) :
                           PendingKey(sim'.pending_undercuts[k]) # key
             /\ \A k \in 1..Len(sim'.fin_log) :
                    sim'.fin_log[k].driver_b = i
                        => PendingKey(sim'.fin_log[k]) \in before]_vars

C29_Witness ==
    /\ sim.time = 7 * dt
    /\ sim.weather.rain = 60
    /\ sim.weather.track_temp = 30
    /\ sim.total_laps = 12
    /\ ~sim.cars[1].on_pit
    /\ sim.cars[1].tyre = "HARD"
    /\ sim.cars[1].tire_temp = 850
    /\ LastStop(sim.cars[1]).new_tyre = "HARD"
    /\ \E k \in 1..Len(sim.fin_log) : sim.fin_log[k].driver_b = 1


(***************************************************************************)
(* C30: a running tick that finds a car in the pits changes of it only the *)
(* countdown, by dt: distance, speed, wear, fuel, laps, total_time and the *)
(* error timer stay (wear until the tick of the exit), and no stop is      *)
(* begun; on_pit holds exactly while the countdown is positive; and while  *)
(* the race is ticked the car leaves the pits.                             *)
(***************************************************************************)
InPitsFrame(i) ==
    (sim'.time > sim.time /\ sim.cars[i].on_pit) =>
        LET car == sim.cars[i]
            after == sim'.cars[i]
            stays == car.pit_counter - dt > 0
        IN /\ after.s = car.s
           /\ after.v = car.v
           /\ after.fuel = car.fuel
           /\ after.laps_completed = car.laps_completed
           /\ after.total_time = car.total_time
           /\ after.error_timer = car.error_timer
           /\ after.error_active = car.error_active
           /\ after.pitstop_count = car.pitstop_count
           /\ Len(after.pitstop_history) = Len(car.pitstop_history)
           /\ after.on_pit = stays
           /\ stays => /\ after.pit_counter = car.pit_counter - dt
                       /\ after.wear = car.wear
                       /\ after.tyre = car.tyre
                       /\ after.tire_temp = car.tire_temp

C30_InPits ==
    /\ [][\A i \in Cars : InPitsFrame(i)]_vars
    /\ [](\A i \in Cars : sim.cars[i].on_pit <=> sim.cars[i].pit_counter > 0)
    /\ \A i \in Cars :
           sim.cars[i].on_pit ~> (~sim.cars[i].on_pit \/ sim.race_finished)

C30_Witness ==
    \E i \in Cars :
        /\ sim.cars[i].on_pit
        /\ sim.cars[i].pit_counter = PIT_TIME_BASE - 2 * dt
        /\ sim.cars[i].pitstop_count = 2
        /\ sim.cars[i].v > 0


(***************************************************************************)
(* The race engine of two cars whose drivers make errors: the random draws *)
(* of the run produce up to MaxErrors driver errors, of any tier, on any   *)
(* running car in any tick; the first ticks of the race are followed.      *)
(***************************************************************************)
MaxErrors == 2
MaxErrorTicks == 4

ErrorInit ==
    /\ \E tyres \in [Cars -> {"SOFT", "HARD"}] :
           sim = [NewSim(DefaultWeather, tyres, MaxErrors) EXCEPT
                      !.race_started = TRUE,
                      !.speed_multiplier = 1]
    /\ active_connections = Readers
    /\ probe = NoProbe

ErrorTick == sim.time < MaxErrorTicks * dt /\ RaceTick

ErrorSpec == ErrorInit /\ [][ErrorTick]_vars

(***************************************************************************)
(* C31: a driver error is triggered only for a car with no error active    *)
(* (so a car gets at most one per tick, and none while an earlier one      *)
(* lasts); while an error is active the multiplier is one of the four tier *)
(* values and the timer is positive; an expired error leaves the car at    *)
(* error_active false, multiplier 1.0, timer 0; each trigger adds exactly  *)
(* one time penalty to total_time and appends exactly one event to         *)
(* race_events.                                                            *)
(***************************************************************************)
ErrorTiers == {85, 75, 50, 20}

ErrorFieldsOk(car) ==
    IF car.error_active
    THEN car.error_speed_multiplier \in ErrorTiers /\ car.error_timer > 0
    ELSE car.error_speed_multiplier = 100 /\ car.error_timer = 0

TierOf(error_type) ==
    CASE error_type = "lockup" -> 85
      [] error_type = "wide" -> 75
      [] error_type = "gravel" -> 50
      [] error_type = "spin" -> 20
      [] OTHER -> 0

SomeCarComplete(s) ==
    \E i \in DOMAIN s.cars : s.cars[i].laps_completed >= s.total_laps

\* C32: race_finished is set in the very step in which a car's
\* laps_completed reaches total_laps, and in every reachable state
\* race_finished is true if and only if some car has
\* laps_completed >= total_laps.
C32_FinishedIffComplete ==
    /\ [](sim.race_finished <=> SomeCarComplete(sim))
    /\ [][/\ (~SomeCarComplete(sim) /\ SomeCarComplete(sim')) => sim'.race_finished
          /\ (~sim.race_finished /\ sim'.race_finished)
                 => /\ sim'.time > sim.time
                    /\ ~SomeCarComplete(sim)
                    /\ SomeCarComplete(sim')]_vars

\* a race finished by a car on its last lap, after an earlier finished race
\* was cleared
C32_Witness ==
    /\ sim.race_finished
    /\ sim.race > 0
    /\ \E i \in DOMAIN sim.cars : sim.cars[i].laps_completed = sim.total_laps
    /\ \E i \in DOMAIN sim.cars : sim.cars[i].laps_completed < sim.total_laps

(***************************************************************************)
(* The intervals of a snapshot.  get_state recomputes the four interval    *)
(* fields of every car from the leaderboard before to_dict rounds them.    *)
(***************************************************************************)
\* Python's round(x, 1) on a distance in cm: to a multiple of 10 cm, like
\* round(x, 2) on a time in ms
Round1(x) == Round2(x)

\* car.time_interval = max(0.0, car.total_time - leader.total_time)
time_interval(car, leader) == Max(0, car.total_time - leader.total_time)

\* lap_diff = car.laps_completed - leader.laps_completed
\* distance_interval = (lap_diff * track_length) + (car.s - leader.s)
distance_interval(car, leader) ==
    (car.laps_completed - leader.laps_completed) * TrackLength + (car.s - leader.s)

\* lap_diff_ahead = car.laps_completed - car_ahead.laps_completed
\* distance_gap_ahead = (lap_diff_ahead * track_length) + (car_ahead.s - car.s)
distance_gap_ahead(car, car_ahead) ==
    (car.laps_completed - car_ahead.laps_completed) * TrackLength
        + (car_ahead.s - car.s)

\* the interval fields of car i in the dictionary get_state publishes
PublishedIntervals(s, i) ==
    LET sorted_cars == get_leaderboard(s.cars)
        leader == s.cars[sorted_cars[1]]
        k == IndexOf(sorted_cars, i)
        car == s.cars[i]
    IN [ time_interval |-> time_interval(car, leader),
         distance_interval |-> Round1(distance_interval(car, leader)),
         gap_ahead |-> IF k > 1 THEN time_interval(car, s.cars[sorted_cars[k - 1]])
                                ELSE 0,
         distance_gap_ahead |->
             IF k > 1 THEN Round1(distance_gap_ahead(car, s.cars[sorted_cars[k - 1]]))
                      ELSE 0 ]

\* the published times: never negative, and 0 for the leader
TimesOk(s, i) ==
    LET pub == PublishedIntervals(s, i)
    IN /\ pub.time_interval >= 0
       /\ pub.gap_ahead >= 0
       /\ i = get_leaderboard(s.cars)[1] => pub.time_interval = 0 /\ pub.gap_ahead = 0

\* the published distances are the distance covered by the car in front
\* minus the distance covered by the car (s counts from the start of the
\* race), whatever the sign convention of the interval to the leader
DistancesOk(s, i) ==
    LET sorted_cars == get_leaderboard(s.cars)
        k == IndexOf(sorted_cars, i)
        pub == PublishedIntervals(s, i)
    IN /\ Abs(pub.distance_interval) = Round1(s.cars[sorted_cars[1]].s - s.cars[i].s)
       /\ k > 1 => pub.distance_gap_ahead
                       = Round1(s.cars[sorted_cars[k - 1]].s - s.cars[i].s)
       /\ k = 1 => pub.distance_gap_ahead = 0

\* C33: in every published snapshot the distance interval to the leader
\* and the distance gap to the car ahead of every car are the true distance
\* deficit, the lap difference counted once, and the published
\* time_interval and gap_ahead are >= 0, both 0 for the leader.
C33_Intervals ==
    \A i \in DOMAIN sim.cars : TimesOk(sim, i) /\ DistancesOk(sim, i)

\* the time half of C33
C33_TimesOnly ==
    \A i \in DOMAIN sim.cars : TimesOk(sim, i)

\* C33 for the cars on the lap of the car they are measured against
C33_SameLap ==
    \A i \in DOMAIN sim.cars :
        LET sorted_cars == get_leaderboard(sim.cars)
            k == IndexOf(sorted_cars, i)
            pub == PublishedIntervals(sim, i)
        IN /\ sim.cars[i].laps_completed = sim.cars[sorted_cars[1]].laps_completed
                  => Abs(pub.distance_interval)
                         = Round1(sim.cars[sorted_cars[1]].s - sim.cars[i].s)
           /\ (k > 1 /\ sim.cars[i].laps_completed
                             = sim.cars[sorted_cars[k - 1]].laps_completed)
                  => pub.distance_gap_ahead
                         = Round1(sim.cars[sorted_cars[k - 1]].s - sim.cars[i].s)

(***************************************************************************)
(* The undercut summary against the records of the pit stop histories.     *)
(***************************************************************************)
\* the stops of car x that hold a finalized record against car y
RecordsOf(s, x, y) ==
    { k \in 1..Len(s.cars[x].pitstop_history) :
          y \in DOMAIN s.cars[x].pitstop_history[k].undercuts }

\* the entries of the summary in which car x tells its battle with car y
ShownBy(s, x, y) ==
    LET summary == get_undercut_summary(s)
    IN { ck \in DOMAIN summary :
             summary[ck].car = x /\ y \in DOMAIN summary[ck].undercuts }

\* a battle is never told from both sides
OneSide(s, x, y) == ShownBy(s, x, y) = {} \/ ShownBy(s, y, x) = {}

\* a pair of drivers is never in the summary twice
ShownOnce(s, x, y) == Cardinality(ShownBy(s, x, y) \cup ShownBy(s, y, x)) <= 1

\* when a side of the pair has a record with a positive gain, what is shown
\* of the pair has a positive gain
WinnerShown(s, x, y) ==
    (\E k \in RecordsOf(s, x, y) :
         s.cars[x].pitstop_history[k].undercuts[y].time_gain > 0)
        => LET summary == get_undercut_summary(s)
           IN /\ \A ck \in ShownBy(s, x, y) : summary[ck].undercuts[y].time_gain > 0
              /\ \A ck \in ShownBy(s, y, x) : summary[ck].undercuts[x].time_gain > 0

\* a pair with finalized records is in the summary
Represented(s, x, y) ==
    RecordsOf(s, x, y) # {} => ShownBy(s, x, y) \cup ShownBy(s, y, x) # {}

\* C34: in the undercut summary of a finished race each battle of a pair of drivers is shown
\* from exactly one of the two sides, never both and never twice, from the
\* side with the positive time gain when there is one, and every finalized
\* record pair of the histories is represented.
C34_SummaryComplete ==
    \A x, y \in DOMAIN sim.cars :
        (sim.race_finished /\ x # y)
              => /\ OneSide(sim, x, y)
                 /\ ShownOnce(sim, x, y)
                 /\ WinnerShown(sim, x, y)
                 /\ Represented(sim, x, y)

\* C34 without its last part: one side, once, the winner's
C34_OneSideOnce ==
    \A x, y \in DOMAIN sim.cars :
        (sim.race_finished /\ x # y) => OneSide(sim, x, y) /\ ShownOnce(sim, x, y) /\ WinnerShown(sim, x, y)

\* a battle shown from the side of the driver who gained, the loser's
\* record left out
C34_Witness ==
    \E x, y \in DOMAIN sim.cars :
        /\ sim.race_finished
        /\ x # y
        /\ RecordsOf(sim, x, y) # {} /\ RecordsOf(sim, y, x) # {}
        /\ ShownBy(sim, x, y) # {} /\ ShownBy(sim, y, x) = {}
        /\ \E k \in RecordsOf(sim, x, y) :
               sim.cars[x].pitstop_history[k].undercuts[y].time_gain > 0

(***************************************************************************)
(* simulation_loop next to the control operations.  The loop and the       *)
(* endpoints are coroutines of one event loop: a coroutine runs from one   *)
(* await to the next without interruption, and the loop awaits in          *)
(* send_json and in asyncio.sleep only.  The dict of get_state holds       *)
(* references into the RaceSim it was taken from; initialize_simulation    *)
(* binds the global sim to a new RaceSim and leaves the old object alone.  *)
(***************************************************************************)
ServeReaders == {1, 2}
MaxReinits == 1
MaxServeTicks == 2

\* the objects of the simulation s a dict of get_state refers to: the
\* weather dict, the race_events list and the pitstop_history lists
Heap(s) ==
    [ weather |-> s.weather,
      race_events |-> s.race_events,
      cars |-> [i \in DOMAIN s.cars |->
                   [pitstop_history |-> s.cars[i].pitstop_history]] ]

\* references of the dict read from whatever the global sim is bound to
HeapOfGlobal(p, s) == Heap(s)

\* the objects the references of the dict of the loop point to: those of
\* the global RaceSim until it is replaced, of the replaced one afterwards
HeapOf(p, s) == IF p.live THEN Heap(s) ELSE p.old

\* the loop at an await: the dict it holds, what the dict held when
\* get_state returned it, and the JSON texts sent in this iteration
ServeRecord(pc, s, readers, reinits) ==
    [ op |-> "serve",
      pc |-> pc,
      todo |-> readers,
      awaiting |-> NoReader,
      disconnected |-> {},
      state |-> StateDict(s),
      produced |-> Content(StateDict(s), s),
      live |-> TRUE,
      old |-> Heap(s),
      sent |-> << >>,
      reinits |-> reinits ]

ServeInit ==
    /\ sim = [NewSim(DefaultWeather, [i \in Cars |-> "HARD"], 0) EXCEPT
                  !.race_started = TRUE]
    /\ active_connections = {}
    /\ probe = ServeRecord("sleep", sim, {}, 0)

\* the loop is suspended in an await: in asyncio.sleep, or in a send_json
AtAwait == probe.pc = "sleep" \/ probe.awaiting # NoReader

\* if sim and len(active_connections) > 0: the batch of steps and
\* state = sim.get_state()
ServeBatch ==
    /\ probe.pc = "sleep"
    /\ active_connections # {}
    /\ sim.time < MaxServeTicks * dt
    /\ \E after \in LoopSteps({[sim EXCEPT !.fin_log = << >>]},
                              steps_per_broadcast(sim.speed_multiplier)) :
           /\ sim' = get_state(after)
           /\ probe' = ServeRecord("send", get_state(after), active_connections,
                                   probe.reinits)
    /\ UNCHANGED active_connections

\* await connection.send_json(state): the dict is serialized when the call
\* is made, then the coroutine waits for the socket
ServeSend(r) ==
    /\ probe.pc = "send"
    /\ probe.awaiting = NoReader
    /\ r \in probe.todo
    /\ probe' = [probe EXCEPT
                    !.awaiting = r,
                    !.todo = @ \ {r},
                    !.sent = Append(@, [ reader |-> r,
                                         json |-> Content(probe.state,
                                                          HeapOf(probe, sim)) ])]
    /\ UNCHANGED << sim, active_connections >>

\* the awaited send returns or raises
ServeSendEnds ==
    /\ probe.pc = "send"
    /\ probe.awaiting # NoReader
    /\ \E failed \in BOOLEAN :
           probe' = [probe EXCEPT
                        !.awaiting = NoReader,
                        !.disconnected = IF failed THEN @ \cup {probe.awaiting} ELSE @]
    /\ UNCHANGED << sim, active_connections >>

\* active_connections.difference_update(disconnected); await asyncio.sleep(0.1)
ServeSleep ==
    /\ probe.pc = "send"
    /\ probe.awaiting = NoReader
    /\ probe.todo = {}
    /\ active_connections' = active_connections \ probe.disconnected
    /\ probe' = [probe EXCEPT !.pc = "sleep"]
    /\ UNCHANGED sim

\* sim = RaceSim(...): the dict of the loop keeps the object it was taken from
Rebound(p, s) ==
    [p EXCEPT !.live = FALSE, !.old = HeapOf(p, s), !.reinits = @ + 1]

\* POST /api/start while the loop waits
ServeStart ==
    /\ AtAwait
    /\ probe.reinits < MaxReinits
    /\ \E w \in Weathers :
           sim' = [NewSim(w, [i \in Cars |-> "HARD"], 0) EXCEPT !.race_started = TRUE,
                                                                !.paused = FALSE]
    /\ probe' = Rebound(probe, sim)
    /\ UNCHANGED active_connections

\* POST /api/reset or the websocket message {'type': 'reset'} while the
\* loop waits
ServeReset ==
    /\ AtAwait
    /\ probe.reinits < MaxReinits
    /\ sim' = NewSim(DefaultWeather, [i \in Cars |-> "HARD"], 0)
    /\ probe' = Rebound(probe, sim)
    /\ UNCHANGED active_connections

ServeNext ==
    \/ ServeBatch
    \/ \E r \in ServeReaders : ServeSend(r)
    \/ ServeSendEnds
    \/ ServeSleep
    \/ ServeStart
    \/ ServeReset
    \/ AtAwait /\ pause_race
    \/ AtAwait /\ resume_race
    \/ \E speed \in SpeedRequests : AtAwait /\ set_speed(speed)
    \/ \E r \in ServeReaders : AtAwait /\ ReaderArrives(r)
    \/ \E r \in ServeReaders : AtAwait /\ ReaderLeaves(r)

ServeSpec == ServeInit /\ [][ServeNext]_vars

\* the fields of the simulation a control operation assigns
ControlFields(s) ==
    << s.race_started, s.paused, s.speed_multiplier, s.weather, s.total_laps >>

\* C35: the per-tick mutation is one serialized step: a control operation
\* (start, reset, pause, resume, set_speed, the websocket reset) takes
\* effect only between batches of ticks, and every published snapshot shows
\* one simulation instance at a tick boundary, also when the simulation is
\* re-initialized during the publication.
C35_Serialized ==
    /\ [](\A k \in 1..Len(probe.sent) : probe.sent[k].json = probe.produced)
    /\ [][/\ sim'.time > sim.time
               => /\ probe.pc = "sleep" /\ probe'.pc = "send"
                  /\ ControlFields(sim') = ControlFields(sim)
                  /\ probe'.reinits = probe.reinits
                  /\ (sim'.time - sim.time) % dt = 0
                  /\ sim'.time - sim.time
                         <= steps_per_broadcast(sim.speed_multiplier) * dt
                  /\ probe'.produced = Content(StateDict(sim'), sim')
          /\ (ControlFields(sim') # ControlFields(sim) \/ probe'.reinits # probe.reinits)
               => /\ AtAwait
                  /\ probe'.pc = probe.pc /\ probe'.awaiting = probe.awaiting
                  /\ probe'.state = probe.state /\ probe'.sent = probe.sent
                  /\ (probe'.reinits = probe.reinits
                         => sim'.cars = sim.cars /\ sim'.time = sim.time)]_vars

\* the second reader is sent the snapshot after a start request replaced the
\* running race, in other weather, during the send to the first
C35_Witness ==
    /\ probe.pc = "send"
    /\ Len(probe.sent) = 2
    /\ ~probe.live
    /\ probe.state.time > 0
    /\ sim.weather # probe.old.weather
    /\ probe.sent[2].json = probe.produced

(***************************************************************************)
(* The range of pitstop_probability.                                       *)
(***************************************************************************)
\* C36: pitstop_probability returns a value in [0, 1] for every car state:
\* every wear in [0, 0.99], every fuel in [0, capacity], every gap and
\* traffic configuration.
C36_ProbabilityRange ==
    probe.op = "pitstop_probability" => probe.result >= 0 /\ probe.result <= One

\* C36 for the cars with worn tyres (wear >= 0.8) or critical fuel
C36_WornOrDry ==
    (/\ probe.op = "pitstop_probability"
     /\ sim.cars[probe.car].wear >= 8000 \/ sim.cars[probe.car].fuel < 5000)
        => probe.result >= 0 /\ probe.result <= One

\* the value step() compares its random draw with is in [0, 1] for every
\* car on the track
C36_InTheRace ==
    \A i \in DOMAIN sim.cars :
        ~sim.cars[i].on_pit
            => pitstop_probability(sim, i) >= 0 /\ pitstop_probability(sim, i) <= One

(***************************************************************************)
(* The order of the cars inside step().  The for loop takes self.cars in   *)
(* list order and updates each car in place; here the same loop body is    *)
(* run over the cars in any given order.                                   *)
(***************************************************************************)
\* the for loop of step() over the cars in the given order
RECURSIVE StepCarsInOrder(_, _, _)
StepCarsInOrder(sims, sorted_cars, order) ==
    IF order = << >> THEN sims
    ELSE StepCarsInOrder(UNION { StepCar(s, sorted_cars, Head(order)) : s \in sims },
                         sorted_cars, Tail(order))

\* step() of a running race with its loop taking the cars in the given
\* order: the set of simulations the random draws can lead to
StepInOrder(s, order) ==
    LET start == [s EXCEPT !.cars = WithPositions(s.cars), !.fin_log = << >>]
        sorted_cars == get_leaderboard(s.cars)
    IN { [after EXCEPT !.cars = WithPositions(after.cars), !.time = @ + dt] :
             after \in StepCarsInOrder({start}, sorted_cars, order) }

\* the orders in which the cars of s can be taken
Orders(s) ==
    { order \in [DOMAIN s.cars -> DOMAIN s.cars] :
          \A i \in DOMAIN s.cars : \E k \in DOMAIN s.cars : order[k] = i }

\* the order of self.cars
ListOrder(s) == [k \in DOMAIN s.cars |-> k]

\* C37: given the same random draws, the state after one step does not
\* depend on the order in which the cars are processed inside the step:
\* whatever order the loop takes, the step leads to the same simulations.
C37_OrderIndependent ==
    Running(sim) =>
        \A order \in Orders(sim) :
            StepInOrder(sim, order) = StepInOrder(sim, ListOrder(sim))

\* a step of which no part is drawn (no car in the pit window or in the
\* pits, no driver error) and which still depends on the order
C37_DrawFree ==
    Running(sim) =>
        \A order \in Orders(sim) :
            (/\ Cardinality(StepInOrder(sim, order)) = 1
             /\ Cardinality(StepInOrder(sim, ListOrder(sim))) = 1)
                => StepInOrder(sim, order) = StepInOrder(sim, ListOrder(sim))

(***************************************************************************)
(* DRS and the pits: the race of 36 laps of initialize_simulation after    *)
(* three laps, car 1 behind car 2 with tyres more or less worn, at a drawn *)
(* place of the lap and a drawn distance behind, followed for a few ticks. *)
(***************************************************************************)
DrsTotalLaps == 36
MaxDrsTicks == 3

DrsInit ==
    /\ \E tyre \in {"SOFT", "MEDIUM"}, wear \in {7900, 8200, 8700},
          place \in {40000, 60000}, behind \in {5000, 20000} :
           LET new == NewSim(DefaultWeather, [i \in Cars |-> tyre], 0)
               run(car) == [car EXCEPT !.laps_completed = 3,
                                       !.v = 9000,
                                       !.fuel = FuelCapacity - 2000,
                                       !.wear = wear]
               cars == WithPositions(
                           [new.cars EXCEPT
                               ![1] = [run(@) EXCEPT !.s = 3 * TrackLength + place],
                               ![2] = [run(@) EXCEPT !.s = 3 * TrackLength + place
                                                           + behind]])
           IN sim = [new EXCEPT !.race_started = TRUE,
                                !.speed_multiplier = 1,
                                !.total_laps = DrsTotalLaps,
                                !.time = 6 * dt,
                                !.cars = cars]
    /\ active_connections = Readers
    /\ probe = NoProbe

DrsTick == sim.time < (6 + MaxDrsTicks) * dt /\ RaceTick

DrsSpec == DrsInit /\ [][DrsTick]_vars

\* C38: in every reachable state a car that is in the pits has drs_active
\* false: no snapshot reports DRS active for a car whose pit flag is set.
C38_NoDrsInPits ==
    \A i \in DOMAIN sim.cars :
        to_dict(sim.cars[i]).on_pit => ~to_dict(sim.cars[i]).drs_active

\* C38 for the cars that had no DRS when they entered the pits
C38_NoDrsGained ==
    [][\A i \in DOMAIN sim.cars :
           (sim'.cars[i].on_pit /\ sim'.cars[i].drs_active)
               => sim.cars[i].drs_active \/ ~sim.cars[i].on_pit]_vars


====
